---- MODULE Spec2Model ----
(***************************************************************************)
(* Model of the MCP device registry: the discovery / reconciliation engine *)
(* (src/discovery.py) and the device synchronizer (src/device.py) acting   *)
(* on the Device, Context, DataPoint and DeviceEvent tables.               *)
(*                                                                         *)
(* A table is a sequence of rows; a row's database id is its index.        *)
(* The store executes every statement it is given, except in the steps of  *)
(* SpecBatch in which a commit raises.                                     *)
(***************************************************************************)
EXTENDS Integers, Sequences, FiniteSets, TLC

VARIABLES devices, contexts, points, events, now,
          dpc, responses, discovered, round,
          rpc, rdevices, rcontexts,
          dloop, discovery_active, dstop, dlog,
          rloop, refresh_active, rstop, rlog,
          tx, ops, details, last,
          conn, udp, workers

vars == <<devices, contexts, points, events, now,
          dpc, responses, discovered, round,
          rpc, rdevices, rcontexts,
          dloop, discovery_active, dstop, dlog,
          rloop, refresh_active, rstop, rlog,
          tx, ops, details, last,
          conn, udp, workers>>

(***************************************************************************)
(* Bounds of the model                                                     *)
(***************************************************************************)
\* the handler steps of a behaviour: a broadcast and each response it collects
\* count one each, a refresh pass and a write count SyncCost
MaxOps == 5
\* the contexts that the contexts responses of a behaviour list in all
MaxContexts == 2
\* the calls of init_device_manager in a behaviour
MaxWorkers == 2
\* what a refresh pass or a write counts in MaxOps
SyncCost == MaxOps - 2
\* what a refresh pass counts: one less when it begins between a broadcast
\* that nothing answered and the liveness pass of that round, so that a
\* behaviour holds a pass during which a registered device goes offline
RefreshCost ==
    IF dpc = "responses" /\ round.responses = <<>> /\ devices # <<>>
    THEN SyncCost - 1 ELSE SyncCost

(***************************************************************************)
(* Values                                                                  *)
(***************************************************************************)
\* Python None / JSON null / SQL NULL / an absent key
NULL == "null"

UUIDS == {"A", "B"}
SourceIp == "127.0.0.1"
DefaultPort == 47808
CTXIDS == {"inverter"}
POINTIDS == {"p", "q"}
\* a point id no context registers
UnknownPoint == "zz"
\* a context path that no device registers
UnknownContext == "nocontext"
\* raw JSON values carried by messages: null, the integers 1 and 2
RawValues == {NULL, "i1", "i2"}
\* the values a write asks for
WriteValues == {NULL, "i1", "i2"}
AccessModes == {"R", "RW"}
\* the timestamp column of a row the code never assigned
NoTime == -1

\* Python str(value)
Str(v) == CASE v = "i1" -> "1"
            [] v = "i2" -> "2"
            [] v = NULL -> "None"
            [] OTHER -> v

\* the set of sequences over S of length at most n
RECURSIVE SeqUpTo(_, _)
SeqUpTo(S, n) ==
    IF n = 0 THEN {<<>>}
    ELSE LET shorter == SeqUpTo(S, n - 1)
         IN  shorter \cup {Append(s, x) : s \in {t \in shorter : Len(t) = n - 1}, x \in S}

\* the indices of the rows of table t that satisfy P
Rows(t, P(_)) == {i \in 1..Len(t) : P(t[i])}

Min(S) == CHOOSE x \in S : \A y \in S : x <= y

\* the rows of t from index n + 1 on (what was appended since t had n rows)
Added(t, n) == SubSeq(t, n + 1, Len(t))

Count(t, P(_)) == Cardinality(Rows(t, P))

(***************************************************************************)
(* Messages                                                                *)
(***************************************************************************)
\* A datagram returned by broadcast_discovery.  A datagram without uuid or
\* without source_ip is skipped whatever else it holds, so one of each is
\* enough.
DiscoveryResponses ==
    [uuid : UUIDS, source_ip : {SourceIp}]
        \cup {[uuid |-> NULL, source_ip |-> SourceIp],
              [uuid |-> "A", source_ip |-> NULL]}

\* maps keyed by point id (a Python dict): sets of entries with distinct ids
UniqueIds(S) == \A x \in S, y \in S : x.point_id = y.point_id => x = y

\* Embedded point definitions of a context of a contexts response (a dict
\* that is not empty): every definition of p alone, a writable p with a
\* value next to a writable q without one, and next to a read-only q.
PointDefs ==
    LET P == [point_id : {"p"}, access : AccessModes, value : {NULL, "i1"}]
    IN  {{x} : x \in P}
            \cup {{[point_id |-> "p", access |-> "RW", value |-> "i1"],
                   [point_id |-> "q", access |-> "RW", value |-> NULL]},
                  {[point_id |-> "p", access |-> "RW", value |-> "i1"],
                   [point_id |-> "q", access |-> "R", value |-> "i1"]}}

\* A context of a contexts response; has_points is "'points' in context_info";
\* type stands for the four properties that are assigned together (type,
\* modelId, modelName, description), and a context is listed with either.
\* A context without id is skipped whatever else it holds.
ContextInfos ==
    [id : CTXIDS, type : {"inverter"}, has_points : {TRUE}, points : PointDefs]
        \cup [id : CTXIDS, type : {"inverter", "meter"}, has_points : {FALSE},
              points : {{}}]
        \cup {[id |-> NULL, type |-> "inverter", has_points |-> FALSE,
               points |-> {}]}

\* What get_available_contexts returns: ok is "a response with mcp.contexts"
ContextsResponses ==
    [ok : {TRUE}, contexts : SeqUpTo(ContextInfos, MaxContexts)]
        \cup {[ok |-> FALSE, contexts |-> <<>>]}

\* the points of a read response: point id -> raw value
PointValues(ids) ==
    {S \in SUBSET [point_id : ids, value : RawValues] : UniqueIds(S)}

\* What read_context returns: ok is "a response with an mcp member"
ReadResponses ==
    [ok : {TRUE}, points : PointValues(POINTIDS)]
        \cup {[ok |-> FALSE, points |-> {}]}

\* The request of a write: the value asked for a point id that no context
\* registers never reaches the device or the store, so one value is enough.
WriteRequests ==
    {S \cup U : S \in {T \in SUBSET [point_id : POINTIDS, value : WriteValues] :
                          UniqueIds(T)},
                U \in {{}, {[point_id |-> UnknownPoint, value |-> "i1"]}}}

\* What write_context returns: nothing (kind "none"), or an mcp envelope with
\* success, error (NULL when absent) and the acknowledged points
WriteResponses(asked) ==
    {[kind |-> "none", success |-> FALSE, error |-> NULL, points |-> {}]}
        \cup [kind : {"mcp"}, success : {FALSE}, error : {NULL, "Device busy"},
              points : {{}}]
        \cup [kind : {"mcp"}, success : {TRUE}, error : {NULL},
              points : SUBSET asked]

(***************************************************************************)
(* Rows                                                                    *)
(***************************************************************************)
Device(uuid, ip, port, t) ==
    [uuid |-> uuid, ip_address |-> ip, port |-> port, is_online |-> TRUE,
     last_seen |-> t]

Context(device_id, context_id, context_type) ==
    [device_id |-> device_id, context_id |-> context_id,
     context_type |-> context_type]

DataPoint(context_id, point_id, access, value) ==
    [context_id |-> context_id, point_id |-> point_id, access |-> access,
     value |-> value, last_updated |-> NoTime]

\* points: the point ids that the event's message and details name
DeviceEvent(device_id, event_type, message) ==
    [device_id |-> device_id, event_type |-> event_type, message |-> message,
     points |-> {}]

\* the 'write' event of a successful write, naming the points in named
WriteEvent(device_id, message, named) ==
    [device_id |-> device_id, event_type |-> "write", message |-> message,
     points |-> named]

(***************************************************************************)
(* Discovery and reconciliation engine (src/discovery.py)                  *)
(***************************************************************************)
\* FindDevice, were the lookup restricted to the devices that are online
FindDevice_OnlineOnly(devs, uuid) ==
    LET found == Rows(devs, LAMBDA d : d.uuid = uuid /\ d.is_online)
    IN  IF found = {} THEN 0 ELSE Min(found)

\* Device.query.filter_by(uuid=uuid).first(): 0 when there is no such row
FindDevice(devs, uuid) ==
    LET found == Rows(devs, LAMBDA d : d.uuid = uuid)
    IN  IF found = {} THEN 0 ELSE Min(found)

\* UpdateDevice, were last_seen left out of the assigned keys
UpdateDevice_KeepLastSeen(existing, ip, port, t) ==
    [existing EXCEPT !.ip_address = ip, !.port = port, !.is_online = TRUE]

\* The update of an existing Device row: every key of device_data but uuid
\* is assigned, is_online and last_seen included.
UpdateDevice(existing, ip, port, t) ==
    [existing EXCEPT !.ip_address = ip, !.port = port, !.is_online = TRUE,
                     !.last_seen = t]

\* The status test of the update branch, made on the row after the
\* assignments above: "if not existing_device.is_online".
WasOffline(old, updated) == ~updated.is_online

\* _process_device_info: upsert of the Device row of one discovery response.
\* Yields the tables and device_data (uuid and database id).
process_device_info(devs, evs, uuid, ip_address, port, t) ==
    LET device_port == IF port = 0 THEN DefaultPort ELSE port
        id == FindDevice(devs, uuid)
    IN  IF id # 0
        THEN LET updated == UpdateDevice(devs[id], ip_address, device_port, t)
             IN  [devices |-> [devs EXCEPT ![id] = updated],
                  events |-> IF WasOffline(devs[id], updated)
                             THEN Append(evs, DeviceEvent(id, "status_change",
                                                          "Device came online"))
                             ELSE evs,
                  device_data |-> [uuid |-> uuid, id |-> id]]
        ELSE [devices |-> Append(devs, Device(uuid, ip_address, device_port, t)),
              events |-> Append(evs, DeviceEvent(Len(devs) + 1, "discovery",
                                                 "Device discovered")),
              device_data |-> [uuid |-> uuid, id |-> Len(devs) + 1]]

\* UpdatePoint, were the metadata assigned next to the value only
UpdatePoint_WithValueOnly(point, info, t) ==
    IF info.value # NULL
    THEN [point EXCEPT !.access = info.access, !.value = Str(info.value),
                       !.last_updated = t]
    ELSE point

\* The update of an existing DataPoint from an embedded definition: the
\* metadata always, value and last_updated only for a value that is not None.
UpdatePoint(point, info, t) ==
    IF info.value # NULL
    THEN [point EXCEPT !.access = info.access, !.value = Str(info.value),
                       !.last_updated = t]
    ELSE [point EXCEPT !.access = info.access]

\* _process_context_points: existing is the result of the query made before
\* the loop (indices of the context's rows); defs is the points dict.
RECURSIVE process_context_points(_, _, _, _, _)
process_context_points(pts, existing, context_id, defs, t) ==
    IF defs = {} THEN pts
    ELSE LET info == CHOOSE x \in defs : TRUE
             same == {i \in existing : pts[i].point_id = info.point_id}
             next == IF same # {}
                     THEN [pts EXCEPT ![Min(same)] = UpdatePoint(pts[Min(same)], info, t)]
                     ELSE Append(pts, DataPoint(context_id, info.point_id, info.access,
                                                IF info.value # NULL
                                                THEN Str(info.value) ELSE NULL))
         IN  process_context_points(next, existing, context_id, defs \ {info}, t)

\* "if context_id in existing_context_ids": existing_context_ids is the set
\* built before the loop from the device's Context rows.
KnownContext(existing_context_ids, context_id) == context_id \in existing_context_ids

\* _process_device_contexts, from element i of contexts_data on.
\* existing_contexts is the query result made before the loop: the indices
\* of the device's Context rows at that time.
RECURSIVE process_contexts_from(_, _, _, _, _, _, _)
process_contexts_from(ctxs, pts, existing_contexts, device_id, data, i, t) ==
    IF i > Len(data) THEN [contexts |-> ctxs, points |-> pts]
    ELSE
      LET info == data[i]
          existing_context_ids == {ctxs[j].context_id : j \in existing_contexts}
      IN  IF info.id = NULL
          THEN process_contexts_from(ctxs, pts, existing_contexts, device_id, data,
                                     i + 1, t)
          ELSE
            LET known == KnownContext(existing_context_ids, info.id)
                cid == IF known
                       THEN Min({j \in existing_contexts : ctxs[j].context_id = info.id})
                       ELSE Len(ctxs) + 1
                ctxs2 == IF known
                         THEN [ctxs EXCEPT ![cid].context_type = info.type]
                         ELSE Append(ctxs, Context(device_id, info.id, info.type))
                pts2 == IF info.has_points
                        THEN process_context_points(
                                 pts, Rows(pts, LAMBDA p : p.context_id = cid),
                                 cid, info.points, t)
                        ELSE pts
            IN  process_contexts_from(ctxs2, pts2, existing_contexts, device_id, data,
                                      i + 1, t)

process_device_contexts(ctxs, pts, device_id, data, t) ==
    process_contexts_from(ctxs, pts, Rows(ctxs, LAMBDA c : c.device_id = device_id),
                          device_id, data, 1, t)

\* GoesOffline, were the test of is_online left out
GoesOffline_AnyAbsent(device, discovered_uuids) ==
    device.uuid \notin discovered_uuids

\* "device.is_online and device.uuid not in discovered_uuids"
GoesOffline(device, discovered_uuids) ==
    device.is_online /\ device.uuid \notin discovered_uuids

\* _update_device_status: the liveness pass over all Device rows
RECURSIVE offline_events(_, _, _)
offline_events(devs, discovered_uuids, i) ==
    IF i > Len(devs) THEN <<>>
    ELSE (IF GoesOffline(devs[i], discovered_uuids)
          THEN <<DeviceEvent(i, "status_change", "Device went offline")>>
          ELSE <<>>) \o offline_events(devs, discovered_uuids, i + 1)

\* update_device_status, were the event of a device going offline written
\* over the committed events of that device
update_device_status_RewritesEvents(devs, evs, discovered_uuids) ==
    [devices |-> [i \in 1..Len(devs) |->
                     IF GoesOffline(devs[i], discovered_uuids)
                     THEN [devs[i] EXCEPT !.is_online = FALSE]
                     ELSE devs[i]],
     events |-> [k \in 1..Len(evs) |->
                    IF GoesOffline(devs[evs[k].device_id], discovered_uuids)
                    THEN DeviceEvent(evs[k].device_id, "status_change",
                                     "Device went offline")
                    ELSE evs[k]]]

\* update_device_status, were the pass skipped when nothing was discovered
update_device_status_SkipEmpty(devs, evs, discovered_uuids) ==
    IF discovered_uuids = {}
    THEN [devices |-> devs, events |-> evs]
    ELSE [devices |-> [i \in 1..Len(devs) |->
                          IF GoesOffline(devs[i], discovered_uuids)
                          THEN [devs[i] EXCEPT !.is_online = FALSE]
                          ELSE devs[i]],
          events |-> evs \o offline_events(devs, discovered_uuids, 1)]

update_device_status(devs, evs, discovered_uuids) ==
    [devices |-> [i \in 1..Len(devs) |->
                     IF GoesOffline(devs[i], discovered_uuids)
                     THEN [devs[i] EXCEPT !.is_online = FALSE]
                     ELSE devs[i]],
     events |-> evs \o offline_events(devs, discovered_uuids, 1)]

(***************************************************************************)
(* Device synchronizer (src/device.py)                                     *)
(***************************************************************************)
Max(S) == CHOOSE x \in S : \A y \in S : x >= y

\* the elements of a set of indices in ascending order
RECURSIVE Ascending(_)
Ascending(S) == IF S = {} THEN <<>> ELSE <<Min(S)>> \o Ascending(S \ {Min(S)})

\* MergeValue, were last_updated stamped for every returned value
MergeValue_AlwaysStamps(point, value, t) ==
    IF value # NULL
    THEN [point EXCEPT !.value = Str(value), !.last_updated = t]
    ELSE point

\* The merge of one returned value into a known point: "if value is not None"
\* and "if point.value != str_value"
MergeValue(point, value, t) ==
    IF value # NULL /\ point.value # Str(value)
    THEN [point EXCEPT !.value = Str(value), !.last_updated = t]
    ELSE point

\* update_context_points, were a returned point that the context does not
\* register added to it
RECURSIVE update_context_points_Registers(_, _, _, _)
update_context_points_Registers(pts, context_id, values, t) ==
    IF values = {} THEN pts
    ELSE LET v == CHOOSE x \in values : TRUE
             same == {i \in 1..Len(pts) : /\ pts[i].context_id = context_id
                                          /\ pts[i].point_id = v.point_id}
             next == IF same # {}
                     THEN [pts EXCEPT ![Max(same)] = MergeValue(pts[Max(same)], v.value, t)]
                     ELSE Append(pts, DataPoint(context_id, v.point_id, "R",
                                                Str(v.value)))
         IN  update_context_points_Registers(next, context_id, values \ {v}, t)

\* _update_context_points: existing_points is the dict point_id -> row built
\* from context.points (for one id, the row listed last)
RECURSIVE update_context_points(_, _, _, _)
update_context_points(pts, context_id, values, t) ==
    IF values = {} THEN pts
    ELSE LET v == CHOOSE x \in values : TRUE
             same == {i \in 1..Len(pts) : /\ pts[i].context_id = context_id
                                          /\ pts[i].point_id = v.point_id}
             next == IF same # {}
                     THEN [pts EXCEPT ![Max(same)] = MergeValue(pts[Max(same)], v.value, t)]
                     ELSE pts
         IN  update_context_points(next, context_id, values \ {v}, t)

\* DataPoint.query.filter_by(context_id=..., point_id=...).first(): 0 if none
FindPoint(pts, context_id, point_id) ==
    LET found == {i \in 1..Len(pts) : /\ pts[i].context_id = context_id
                                      /\ pts[i].point_id = point_id}
    IN  IF found = {} THEN 0 ELSE Min(found)

\* Writable, were 'R' among the accepted access modes
Writable_AnyAccess(point) == point.access \in {"R", "W", "RW"}

\* "point.access not in ['W', 'RW']" negated
Writable(point) == point.access \in {"W", "RW"}

\* validated_points, were the access mode of the point not tested
validated_points_AccessUntested(pts, context_id, points_data) ==
    {x \in points_data : FindPoint(pts, context_id, x.point_id) # 0}

\* write_device_context, the validation loop: the requested entries whose
\* point exists in the context and is writable
validated_points(pts, context_id, points_data) ==
    {x \in points_data :
        LET i == FindPoint(pts, context_id, x.point_id)
        IN  i # 0 /\ Writable(pts[i])}

\* write_device_context, the entries persisted after a successful response
Persisted(validated, response) == validated

\* write_device_context, the update loop of the success branch
RECURSIVE persist_points(_, _, _, _)
persist_points(pts, context_id, entries, t) ==
    IF entries = {} THEN pts
    ELSE LET x == CHOOSE y \in entries : TRUE
             i == FindPoint(pts, context_id, x.point_id)
             next == IF i # 0
                     THEN [pts EXCEPT ![i].value = Str(x.value), ![i].last_updated = t]
                     ELSE pts
         IN  persist_points(next, context_id, entries \ {x}, t)

\* write_outcome, were the 'write' event logged for a refused write as well
write_outcome_LogsRefusal(pts, evs, device_id, context_id, validated, response, t) ==
    IF response.kind = "none"
    THEN [points |-> pts, events |-> evs,
          result |-> [success |-> FALSE, error |-> "Failed to write to device"]]
    ELSE [points |-> IF response.success
                     THEN persist_points(pts, context_id,
                                         Persisted(validated, response), t)
                     ELSE pts,
          events |-> Append(evs, WriteEvent(device_id, "Wrote values",
                                            {x.point_id : x \in validated})),
          result |-> IF response.success THEN [success |-> TRUE, error |-> NULL]
                     ELSE [success |-> FALSE,
                           error |-> IF response.error = NULL THEN "Unknown error"
                                     ELSE response.error]]

\* write_outcome, were the points persisted before the response is tested
write_outcome_PersistFirst(pts, evs, device_id, context_id, validated, response, t) ==
    LET stored == persist_points(pts, context_id, validated, t)
    IN  IF response.kind = "none"
        THEN [points |-> stored, events |-> evs,
              result |-> [success |-> FALSE, error |-> "Failed to write to device"]]
        ELSE IF response.success
        THEN [points |-> stored,
              events |-> Append(evs, WriteEvent(device_id, "Wrote values",
                                          {x.point_id : x \in validated})),
              result |-> [success |-> TRUE, error |-> NULL]]
        ELSE [points |-> stored, events |-> evs,
              result |-> [success |-> FALSE,
                          error |-> IF response.error = NULL THEN "Unknown error"
                                    ELSE response.error]]

\* write_device_context after validation, given the device's response: the
\* tables and the result returned to the caller
write_outcome(pts, evs, device_id, context_id, validated, response, t) ==
    IF response.kind = "none"
    THEN [points |-> pts, events |-> evs,
          result |-> [success |-> FALSE, error |-> "Failed to write to device"]]
    ELSE IF response.success
    THEN [points |-> persist_points(pts, context_id, Persisted(validated, response), t),
          events |-> Append(evs, WriteEvent(device_id, "Wrote values",
                                          {x.point_id : x \in validated})),
          result |-> [success |-> TRUE, error |-> NULL]]
    ELSE [points |-> pts, events |-> evs,
          result |-> [success |-> FALSE,
                      error |-> IF response.error = NULL THEN "Unknown error"
                                ELSE response.error]]

\* Context.query.filter_by(device_id=..., context_id=...).first(): 0 if none
FindContext(ctxs, device_id, context_id) ==
    LET found == {i \in 1..Len(ctxs) : /\ ctxs[i].device_id = device_id
                                       /\ ctxs[i].context_id = context_id}
    IN  IF found = {} THEN 0 ELSE Min(found)

\* write_point_value after its checks, given the device's response: i is the
\* row of the point found by the checks
write_point_outcome(pts, evs, device_id, i, point_id, value, response, t) ==
    IF response.kind = "none"
    THEN [points |-> pts, events |-> evs, result |-> FALSE]
    ELSE IF response.success
    THEN [points |-> [pts EXCEPT ![i].value = Str(value), ![i].last_updated = t],
          events |-> Append(evs, WriteEvent(device_id, "Wrote value", {point_id})),
          result |-> TRUE]
    ELSE [points |-> pts, events |-> evs, result |-> FALSE]

(***************************************************************************)
(* The record of the step taken last (call and op both name the step, so   *)
(* that two records of different steps differ in their first field): what  *)
(* it was given, what it returned,                                          *)
(* the messages it sent, and the tables as they were before it             *)
(***************************************************************************)
Last(op, input, result, sent) ==
    [call |-> op, input |-> input, op |-> op,
     pre_contexts |-> contexts, pre_devices |-> devices,
     pre_events |-> events, pre_points |-> points,
     result |-> result, sent |-> sent]

NoInput == [none |-> TRUE]
NoResult == [none |-> TRUE]

Init ==
    /\ devices = <<>>
    /\ contexts = <<>>
    /\ points = <<>>
    /\ events = <<>>
    /\ now = 0
    /\ dpc = "idle"
    /\ responses = <<>>
    /\ discovered = <<>>
    /\ round = [pre_devices |-> <<>>, pre_events |-> <<>>, responses |-> <<>>]
    /\ rpc = "idle"
    /\ rdevices = <<>>
    /\ rcontexts = <<>>
    /\ dloop = "off"
    /\ discovery_active = FALSE
    /\ dstop = FALSE
    /\ dlog = 0
    /\ rloop = "off"
    /\ refresh_active = FALSE
    /\ rstop = FALSE
    /\ rlog = 0
    /\ tx = [base_contexts |-> <<>>, base_points |-> <<>>, began |-> 0,
             contexts |-> <<>>, data |-> <<>>, device_id |-> 0, existing |-> {},
             i |-> 0, open |-> FALSE, points |-> <<>>]
    /\ ops = 0
    /\ details = 0
    /\ conn = [pc |-> "off", sock |-> "none", opened |-> 0,
               peer |-> [none |-> TRUE], stream |-> [none |-> TRUE],
               length_bytes |-> <<>>, data |-> <<>>,
               result |-> [none |-> TRUE], failure |-> "null"]
    /\ udp = [pc |-> "off", start |-> 0, since |-> 0, clock |-> 0,
              arrived |-> <<>>, responses |-> <<>>, error |-> "null"]
    /\ workers = [w \in 1..MaxWorkers |-> "off"]
    /\ last = [call |-> "init", input |-> NoInput, op |-> "init",
               pre_contexts |-> <<>>, pre_devices |-> <<>>,
               pre_events |-> <<>>, pre_points |-> <<>>,
               result |-> NoResult, sent |-> <<>>]

refreshVars == <<rpc, rdevices, rcontexts>>
discoveryVars == <<dpc, responses, discovered, round>>
\* the discovery loop and the refresh loop: position of the loop's thread,
\* active flag, stop event, and the number of "Error in ... cycle" lines logged
discoveryLoopVars == <<dloop, discovery_active, dstop, dlog>>
refreshLoopVars == <<rloop, refresh_active, rstop, rlog>>
loopVars == <<discoveryLoopVars, refreshLoopVars>>
\* a call of send_message on its connection, a collection of
\* broadcast_discovery on its socket, the threads that the calls of
\* init_device_manager started
wireVars == <<conn, udp, workers>>

\* discover_devices, the broadcast: the responses of the round are collected
Broadcast ==
    /\ dpc = "idle"
    /\ ops < MaxOps
    /\ \E rs \in SeqUpTo(DiscoveryResponses, MaxOps - ops - 1) :
         /\ ops' = ops + 1 + Len(rs)
         /\ responses' = rs
         /\ round' = [pre_devices |-> devices, pre_events |-> events, responses |-> rs]
         /\ last' = Last("broadcast", rs, NoResult, <<>>)
    /\ dpc' = "responses"
    /\ discovered' = <<>>
    /\ now' = now + 1
    /\ UNCHANGED <<devices, contexts, points, events, refreshVars, details>>

\* discover_devices, one pass of the loop over the responses: a response
\* without uuid or source_ip is skipped
SkipResponse ==
    /\ dpc = "responses"
    /\ responses # <<>>
    /\ Head(responses).uuid = NULL \/ Head(responses).source_ip = NULL
    /\ responses' = Tail(responses)
    /\ last' = Last("skip_response", Head(responses), NoResult, <<>>)
    /\ UNCHANGED <<devices, contexts, points, events, now, dpc, discovered, round,
                   refreshVars, ops, details>>

\* discover_devices, one pass of the loop over the responses:
\* _process_device_info, then _get_device_details with the device's answer
\* to the contexts request
ProcessResponse ==
    /\ dpc = "responses"
    /\ responses # <<>>
    /\ Head(responses).uuid # NULL /\ Head(responses).source_ip # NULL
    /\ LET r == Head(responses)
           info == process_device_info(devices, events, r.uuid, r.source_ip,
                                       DefaultPort, now)
       IN  /\ devices' = info.devices
           /\ events' = info.events
           /\ discovered' = Append(discovered, info.device_data)
           /\ \E cr \in ContextsResponses :
                /\ details + Len(cr.contexts) <= MaxContexts
                /\ details' = details + Len(cr.contexts)
                /\ LET done == IF cr.ok
                               THEN process_device_contexts(contexts, points,
                                        info.device_data.id, cr.contexts, now)
                               ELSE [contexts |-> contexts, points |-> points]
                   IN  /\ contexts' = done.contexts
                       /\ points' = done.points
                       /\ last' = Last("response",
                                       [uuid |-> r.uuid, contexts |-> cr],
                                       info.device_data,
                                       <<[type |-> "contexts"]>>)
    /\ responses' = Tail(responses)
    /\ UNCHANGED <<now, dpc, round, refreshVars, ops>>

\* discover_devices, after the loop: _update_device_status
UpdateStatus ==
    /\ dpc = "responses"
    /\ responses = <<>>
    /\ LET discovered_uuids == {discovered[i].uuid : i \in 1..Len(discovered)}
           done == update_device_status(devices, events, discovered_uuids)
       IN  /\ devices' = done.devices
           /\ events' = done.events
           /\ last' = Last("update_status", discovered_uuids, NoResult, <<>>)
    /\ dpc' = "idle"
    /\ UNCHANGED <<contexts, points, now, responses, discovered, round,
                   refreshVars, ops, details>>

\* refresh_all_devices up to its loop: the online devices are queried
RefreshAll ==
    /\ rpc = "idle"
    /\ ops + RefreshCost <= MaxOps
    /\ ops' = ops + RefreshCost
    /\ now' = now + 1
    /\ LET online_devices == Ascending(Rows(devices, LAMBDA d : d.is_online))
       IN  /\ rdevices' = online_devices
           /\ rpc' = IF online_devices = <<>> THEN "idle" ELSE "device"
           /\ last' = Last("refresh_all", NoInput, online_devices, <<>>)
    /\ rcontexts' = <<>>
    /\ UNCHANGED <<devices, contexts, points, events, discoveryVars, details>>

\* the position of the refresh pass once the contexts cs of the current
\* device and the devices ds are left to do
RefreshPosition(cs, ds) ==
    IF cs # <<>> THEN "context" ELSE IF ds # <<>> THEN "device" ELSE "idle"

\* RefreshDevice, were the whole row of the device object that the pass
\* loaded written back with the timestamp
RefreshDevice_MarksOnline ==
    /\ rpc = "device"
    /\ LET id == Head(rdevices)
           cs == Ascending(Rows(contexts, LAMBDA c : c.device_id = id))
       IN  /\ devices' = [devices EXCEPT ![id].last_seen = now,
                                         ![id].is_online = TRUE]
           /\ rcontexts' = cs
           /\ rpc' = RefreshPosition(cs, Tail(rdevices))
           /\ last' = Last("refresh_device", id, NoResult, <<>>)
    /\ rdevices' = Tail(rdevices)
    /\ UNCHANGED <<contexts, points, events, now, discoveryVars, ops, details>>

\* refresh_device up to its loop: last_seen is stamped and committed
RefreshDevice ==
    /\ rpc = "device"
    /\ LET id == Head(rdevices)
           cs == Ascending(Rows(contexts, LAMBDA c : c.device_id = id))
       IN  /\ devices' = [devices EXCEPT ![id].last_seen = now]
           /\ rcontexts' = cs
           /\ rpc' = RefreshPosition(cs, Tail(rdevices))
           /\ last' = Last("refresh_device", id, NoResult, <<>>)
    /\ rdevices' = Tail(rdevices)
    /\ UNCHANGED <<contexts, points, events, now, discoveryVars, ops, details>>

\* refresh_context: one read of a context and the merge of what it returns
RefreshContext ==
    /\ rpc = "context"
    /\ LET cid == Head(rcontexts)
       IN  \E response \in ReadResponses :
             /\ points' = IF response.ok /\ response.points # {}
                          THEN update_context_points(points, cid, response.points, now)
                          ELSE points
             /\ last' = Last("refresh_context", [context |-> cid, response |-> response],
                             NoResult,
                             <<[type |-> "read", context |-> contexts[cid].context_id]>>)
    /\ rcontexts' = Tail(rcontexts)
    /\ rpc' = RefreshPosition(Tail(rcontexts), rdevices)
    /\ UNCHANGED <<devices, contexts, events, now, rdevices, discoveryVars, ops, details>>

\* DeviceUsable, were the online flag not looked at
DeviceUsable_Registered(devs, device_id) == device_id <= Len(devs)

\* "if not device or not device.is_online", negated: Device.query.get found
\* the device and it is online
DeviceUsable(devs, device_id) ==
    device_id <= Len(devs) /\ devs[device_id].is_online

\* what a write counts: one less when it names a registered device that is
\* offline, so that a behaviour holds a write after the round that took the
\* device offline
WriteCost(device_id) ==
    IF device_id <= Len(devices) /\ ~devices[device_id].is_online
    THEN SyncCost - 1 ELSE SyncCost

\* write_device_context returning before any request is sent
WriteRejected(device_id, context_id, points_data, error) ==
    /\ last' = Last("write", [device_id |-> device_id, context_id |-> context_id,
                              points_data |-> points_data],
                    [success |-> FALSE, error |-> error], <<>>)
    /\ UNCHANGED <<points, events>>

\* write_device_context(device_id, context_id, points_data)
WriteDeviceContext ==
    /\ now' = now + 1
    /\ \E device_id \in 1..(Len(devices) + 1), context_id \in 1..(Len(contexts) + 1) :
         /\ ops + WriteCost(device_id) <= MaxOps
         /\ ops' = ops + WriteCost(device_id)
         /\ IF ~DeviceUsable(devices, device_id)
            THEN WriteRejected(device_id, context_id, {}, "Device not found or offline")
            ELSE IF context_id > Len(contexts)
            THEN WriteRejected(device_id, context_id, {}, "Context not found")
            ELSE \E points_data \in WriteRequests :
                   LET validated == validated_points(points, context_id, points_data)
                   IN  IF validated = {}
                       THEN WriteRejected(device_id, context_id, points_data,
                                          "No valid writable points")
                       ELSE \E response \in
                                 WriteResponses({x.point_id : x \in validated}) :
                              LET done == write_outcome(points, events, device_id,
                                                        context_id, validated, response,
                                                        now + 1)
                              IN  /\ points' = done.points
                                  /\ events' = done.events
                                  /\ last' = Last("write",
                                                  [device_id |-> device_id,
                                                   context_id |-> context_id,
                                                   points_data |-> points_data,
                                                   response |-> response],
                                                  done.result,
                                                  <<[type |-> "write",
                                                     context |-> contexts[context_id].context_id,
                                                     points |-> validated]>>)
    /\ UNCHANGED <<devices, contexts, discoveryVars, refreshVars, details>>

\* write_point_value(device_id, context_id, point_id, value): context_id is
\* the context's path; the step records the row it resolved to (0 if none)
WritePointValue ==
    /\ now' = now + 1
    /\ \E device_id \in 1..(Len(devices) + 1), context_id \in CTXIDS \cup {UnknownContext},
          point_id \in POINTIDS \cup {UnknownPoint}, value \in WriteValues :
         /\ ops + WriteCost(device_id) <= MaxOps
         /\ ops' = ops + WriteCost(device_id)
         /\ LET known == DeviceUsable(devices, device_id)
                c == IF known THEN FindContext(contexts, device_id, context_id) ELSE 0
                i == IF c = 0 THEN 0 ELSE FindPoint(points, c, point_id)
                points_data == {[point_id |-> point_id, value |-> value]}
            IN  IF i = 0 \/ ~Writable(points[i])
                THEN /\ last' = Last("write_point",
                                     [device_id |-> device_id, context_id |-> c,
                                      path |-> context_id, points_data |-> points_data],
                                     [success |-> FALSE, error |-> NULL], <<>>)
                     /\ UNCHANGED <<points, events>>
                ELSE \E response \in WriteResponses({point_id}) :
                       LET done == write_point_outcome(points, events, device_id, i,
                                                       point_id, value, response, now + 1)
                       IN  /\ points' = done.points
                           /\ events' = done.events
                           /\ last' = Last("write_point",
                                           [device_id |-> device_id, context_id |-> c,
                                            path |-> context_id,
                                            points_data |-> points_data,
                                            response |-> response],
                                           [success |-> done.result, error |-> NULL],
                                           <<[type |-> "write", context |-> context_id,
                                              points |-> points_data]>>)
    /\ UNCHANGED <<devices, contexts, discoveryVars, refreshVars, details>>

\* The operations invoked one by one, no loop running: one discovery round
\* at a time, the refresh pass and the writes beside it
Next ==
    \/ Broadcast /\ UNCHANGED <<loopVars, tx, wireVars>>
    \/ SkipResponse /\ UNCHANGED <<loopVars, tx, wireVars>>
    \/ ProcessResponse /\ UNCHANGED <<loopVars, tx, wireVars>>
    \/ UpdateStatus /\ UNCHANGED <<loopVars, tx, wireVars>>
    \/ RefreshAll /\ UNCHANGED <<loopVars, tx, wireVars>>
    \/ RefreshDevice /\ UNCHANGED <<loopVars, tx, wireVars>>
    \/ RefreshContext /\ UNCHANGED <<loopVars, tx, wireVars>>
    \/ WriteDeviceContext /\ UNCHANGED <<loopVars, tx, wireVars>>
    \/ WritePointValue /\ UNCHANGED <<loopVars, tx, wireVars>>

Spec == Init /\ [][Next]_vars

(***************************************************************************)
(* The discovery loop and the refresh loop, each in its own thread         *)
(* (start_discovery_loop, start_refresh_loop and their stop requests).     *)
(* Positions of a loop's thread: "off" not launched, "starting" launched,  *)
(* "clearing" active flag set, "test" at the while test, "round" in the    *)
(* round, "wait" in the wait on the stop event, "done" returned.           *)
(***************************************************************************)
\* LoopContinues, were the stop event never looked at
LoopContinues_Forever(stop) == TRUE

\* "while not self._stop_event.is_set()"
LoopContinues(stop) == ~stop

\* WaitReturns, were the wait a sleep of the whole interval
WaitReturns_Sleeps(stop, elapsed) == elapsed

\* "self._stop_event.wait(interval)": returns when the event is set or the
\* interval has elapsed
WaitReturns(stop, elapsed) == stop \/ elapsed

\* RoundPosition, were the round handed to a helper and not waited for
RoundPosition_Detached(pc) == "wait"

\* RoundPosition, were the loop left when the round raises
RoundPosition_FailureEndsLoop(pc) == IF pc = "raised" THEN "done" ELSE "round"

\* The position of the loop's thread after a step of its round, pc being the
\* position reached in the round ("idle": the round returned; "raised": an
\* exception left the round and was caught by the loop)
RoundPosition(pc) == IF pc \in {"idle", "raised"} THEN "wait" ELSE "round"

\* stop_discovery / stop_refresh: the stop event after the request
StopRequest(active, stop) == IF active THEN TRUE ELSE stop

\* init_mcp starts the discovery thread
LaunchDiscovery ==
    /\ dloop = "off"
    /\ dloop' = "starting"
    /\ last' = Last("launch_discovery", NoInput, NoResult, <<>>)
    /\ UNCHANGED <<discovery_active, dstop, dlog>>

\* start_discovery_loop: "self.discovery_active = True"
DiscoveryActivate ==
    /\ dloop = "starting"
    /\ dloop' = "clearing"
    /\ discovery_active' = TRUE
    /\ last' = Last("discovery_activate", NoInput, NoResult, <<>>)
    /\ UNCHANGED <<dstop, dlog>>

\* start_discovery_loop: "self._stop_event.clear()"
DiscoveryClear ==
    /\ dloop = "clearing"
    /\ dloop' = "test"
    /\ dstop' = FALSE
    /\ last' = Last("discovery_clear", [stop |-> dstop], NoResult, <<>>)
    /\ UNCHANGED <<discovery_active, dlog>>

\* start_discovery_loop, the while test; when it fails the finally clause
\* resets the active flag and the thread returns
DiscoveryTest ==
    /\ dloop = "test"
    /\ dloop' = IF LoopContinues(dstop) THEN "round" ELSE "done"
    /\ discovery_active' = IF LoopContinues(dstop) THEN discovery_active ELSE FALSE
    /\ last' = Last("discovery_test", [stop |-> dstop], NoResult, <<>>)
    /\ UNCHANGED <<dstop, dlog>>

\* a step of the round of the discovery loop
DiscoveryRound ==
    /\ dloop = "round"
    /\ \/ Broadcast
       \/ SkipResponse
       \/ ProcessResponse
       \/ UpdateStatus
    /\ dloop' = RoundPosition(dpc')
    /\ UNCHANGED <<discovery_active, dstop, dlog>>

\* an exception leaves discover_devices (the broadcast is outside every try
\* of the round) or app.app_context(); the loop logs it
DiscoveryRaises ==
    /\ dloop = "round"
    /\ dpc = "idle"
    /\ ops < MaxOps
    /\ ops' = ops + 1
    /\ dloop' = RoundPosition("raised")
    /\ dlog' = dlog + 1
    /\ last' = Last("discovery_raised", NoInput, NoResult, <<>>)
    /\ UNCHANGED <<discovery_active, dstop>>

\* the wait of the discovery loop returns, the interval having elapsed or not
DiscoveryWait(elapsed) ==
    /\ dloop = "wait"
    /\ WaitReturns(dstop, elapsed)
    /\ dloop' = "test"
    /\ last' = Last("discovery_wait", [stop |-> dstop, elapsed |-> elapsed],
                    NoResult, <<>>)
    /\ UNCHANGED <<discovery_active, dstop, dlog>>

\* stop_discovery()
StopDiscovery ==
    /\ dstop' = StopRequest(discovery_active, dstop)
    /\ last' = Last("stop_discovery", [active |-> discovery_active, position |-> dloop],
                    NoResult, <<>>)
    /\ UNCHANGED <<dloop, discovery_active, dlog>>

\* init_device_manager starts the refresh thread
LaunchRefresh ==
    /\ rloop = "off"
    /\ rloop' = "starting"
    /\ last' = Last("launch_refresh", NoInput, NoResult, <<>>)
    /\ UNCHANGED <<refresh_active, rstop, rlog>>

\* start_refresh_loop: "self.refresh_active = True"
RefreshActivate ==
    /\ rloop = "starting"
    /\ rloop' = "clearing"
    /\ refresh_active' = TRUE
    /\ last' = Last("refresh_activate", NoInput, NoResult, <<>>)
    /\ UNCHANGED <<rstop, rlog>>

\* start_refresh_loop: "self._stop_event.clear()"
RefreshClear ==
    /\ rloop = "clearing"
    /\ rloop' = "test"
    /\ rstop' = FALSE
    /\ last' = Last("refresh_clear", [stop |-> rstop], NoResult, <<>>)
    /\ UNCHANGED <<refresh_active, rlog>>

\* start_refresh_loop, the while test and the finally clause
RefreshTest ==
    /\ rloop = "test"
    /\ rloop' = IF LoopContinues(rstop) THEN "round" ELSE "done"
    /\ refresh_active' = IF LoopContinues(rstop) THEN refresh_active ELSE FALSE
    /\ last' = Last("refresh_test", [stop |-> rstop], NoResult, <<>>)
    /\ UNCHANGED <<rstop, rlog>>

\* a step of the round of the refresh loop
RefreshRound ==
    /\ rloop = "round"
    /\ \/ RefreshAll
       \/ RefreshDevice
       \/ RefreshContext
    /\ rloop' = RoundPosition(rpc')
    /\ UNCHANGED <<refresh_active, rstop, rlog>>

\* an exception leaves the round of the refresh loop (app.app_context();
\* refresh_all_devices catches its own); the loop logs it
RefreshRaises ==
    /\ rloop = "round"
    /\ rpc = "idle"
    /\ ops < MaxOps
    /\ ops' = ops + 1
    /\ rloop' = RoundPosition("raised")
    /\ rlog' = rlog + 1
    /\ last' = Last("refresh_raised", NoInput, NoResult, <<>>)
    /\ UNCHANGED <<refresh_active, rstop>>

\* the wait of the refresh loop returns
RefreshWait(elapsed) ==
    /\ rloop = "wait"
    /\ WaitReturns(rstop, elapsed)
    /\ rloop' = "test"
    /\ last' = Last("refresh_wait", [stop |-> rstop, elapsed |-> elapsed],
                    NoResult, <<>>)
    /\ UNCHANGED <<refresh_active, rstop, rlog>>

\* stop_refresh()
StopRefresh ==
    /\ rstop' = StopRequest(refresh_active, rstop)
    /\ last' = Last("stop_refresh", [active |-> refresh_active, position |-> rloop],
                    NoResult, <<>>)
    /\ UNCHANGED <<rloop, refresh_active, rlog>>

registryVars == <<devices, contexts, points, events, now, discoveryVars,
                  refreshVars, tx, ops, details, wireVars>>

\* The service as init_mcp leaves it: empty tables, no thread launched. The
\* devices of this specification report no context.
InitLoop ==
    /\ devices = <<>>
    /\ contexts = <<>>
    /\ points = <<>>
    /\ events = <<>>
    /\ now = 0
    /\ dpc = "idle"
    /\ responses = <<>>
    /\ discovered = <<>>
    /\ round = [pre_devices |-> <<>>, pre_events |-> <<>>, responses |-> <<>>]
    /\ rpc = "idle"
    /\ rdevices = <<>>
    /\ rcontexts = <<>>
    /\ dloop = "off"
    /\ discovery_active = FALSE
    /\ dstop = FALSE
    /\ dlog = 0
    /\ rloop = "off"
    /\ refresh_active = FALSE
    /\ rstop = FALSE
    /\ rlog = 0
    /\ tx = [base_contexts |-> <<>>, base_points |-> <<>>, began |-> 0,
             contexts |-> <<>>, data |-> <<>>, device_id |-> 0, existing |-> {},
             i |-> 0, open |-> FALSE, points |-> <<>>]
    /\ ops = 0
    /\ details = MaxContexts
    /\ conn = [pc |-> "off", sock |-> "none", opened |-> 0,
               peer |-> [none |-> TRUE], stream |-> [none |-> TRUE],
               length_bytes |-> <<>>, data |-> <<>>,
               result |-> [none |-> TRUE], failure |-> "null"]
    /\ udp = [pc |-> "off", start |-> 0, since |-> 0, clock |-> 0,
              arrived |-> <<>>, responses |-> <<>>, error |-> "null"]
    /\ workers = [w \in 1..MaxWorkers |-> "off"]
    /\ last = [call |-> "init", input |-> NoInput, op |-> "init",
               pre_contexts |-> <<>>, pre_devices |-> <<>>,
               pre_events |-> <<>>, pre_points |-> <<>>,
               result |-> NoResult, sent |-> <<>>]

\* the steps of the thread of the discovery loop that the thread takes by
\* itself once it is launched
DiscoveryThread ==
    \/ DiscoveryActivate /\ UNCHANGED <<registryVars, refreshLoopVars>>
    \/ DiscoveryClear /\ UNCHANGED <<registryVars, refreshLoopVars>>
    \/ DiscoveryTest /\ UNCHANGED <<registryVars, refreshLoopVars>>
    \/ DiscoveryRound /\ UNCHANGED <<refreshLoopVars, tx, wireVars>>
    \/ DiscoveryWait(FALSE) /\ UNCHANGED <<registryVars, refreshLoopVars>>

RefreshThread ==
    \/ RefreshActivate /\ UNCHANGED <<registryVars, discoveryLoopVars>>
    \/ RefreshClear /\ UNCHANGED <<registryVars, discoveryLoopVars>>
    \/ RefreshTest /\ UNCHANGED <<registryVars, discoveryLoopVars>>
    \/ RefreshRound /\ UNCHANGED <<discoveryLoopVars, tx, wireVars>>
    \/ RefreshWait(FALSE) /\ UNCHANGED <<registryVars, discoveryLoopVars>>

\* the interval of a wait elapses
DiscoveryIntervalElapses ==
    DiscoveryWait(TRUE) /\ UNCHANGED <<registryVars, refreshLoopVars>>
RefreshIntervalElapses ==
    RefreshWait(TRUE) /\ UNCHANGED <<registryVars, discoveryLoopVars>>

NextLoop ==
    \/ LaunchDiscovery /\ UNCHANGED <<registryVars, refreshLoopVars>>
    \/ LaunchRefresh /\ UNCHANGED <<registryVars, discoveryLoopVars>>
    \/ DiscoveryThread
    \/ RefreshThread
    \/ DiscoveryIntervalElapses
    \/ RefreshIntervalElapses
    \/ DiscoveryRaises /\ UNCHANGED <<devices, contexts, points, events, now,
                                      discoveryVars, refreshVars, tx, wireVars, details,
                                      refreshLoopVars>>
    \/ RefreshRaises /\ UNCHANGED <<devices, contexts, points, events, now,
                                    discoveryVars, refreshVars, tx, wireVars, details,
                                    discoveryLoopVars>>
    \/ StopDiscovery /\ UNCHANGED <<registryVars, refreshLoopVars>>
    \/ StopRefresh /\ UNCHANGED <<registryVars, discoveryLoopVars>>

SpecLoop == InitLoop /\ [][NextLoop]_vars

\* where each thread is: every step of a thread changes its position
discoveryPosition == <<dloop, dpc, responses>>
refreshPosition == <<rloop, rpc, rdevices, rcontexts>>
positions == <<discoveryPosition, refreshPosition, dstop, rstop>>

(***************************************************************************)
(* The reconciliation of one device's contexts and points as the           *)
(* transaction it is (_process_device_contexts): the session of the        *)
(* discovery thread works on its own copy of the rows, flushes stay inside *)
(* the transaction, and the other sessions (the refresh pass, the writes)  *)
(* read and write the committed tables.                                    *)
(***************************************************************************)
NoBatch ==
    [base_contexts |-> <<>>, base_points |-> <<>>, began |-> 0,
     contexts |-> <<>>, data |-> <<>>, device_id |-> 0, existing |-> {},
     i |-> 0, open |-> FALSE, points |-> <<>>]

\* rollback, were the rows flushed so far committed when the batch fails
rollback_KeepsFlushed(committed, working) == working

\* "db.session.rollback()": the working copy is dropped
rollback(committed, working) == committed

\* "db.session.commit()" for the points: the columns the batch assigned, and
\* the rows it added, go to the committed table; what other sessions
\* committed meanwhile in other columns stays
commit_points(committed, base, working) ==
    [k \in 1..Len(working) |->
        IF k > Len(base) THEN working[k]
        ELSE [access |-> IF working[k].access # base[k].access
                         THEN working[k].access ELSE committed[k].access,
              context_id |-> committed[k].context_id,
              last_updated |-> IF working[k].last_updated # base[k].last_updated
                               THEN working[k].last_updated
                               ELSE committed[k].last_updated,
              point_id |-> committed[k].point_id,
              value |-> IF working[k].value # base[k].value
                        THEN working[k].value ELSE committed[k].value]]

\* a step of the round of the discovery thread outside the batch
BatchIdle == ~tx.open

\* discover_devices, one pass of the loop over the responses up to the
\* beginning of _process_device_contexts: the device is committed, the
\* contexts request answered, the device's Context rows queried
BatchBegin ==
    /\ ~tx.open
    /\ dpc = "responses"
    /\ responses # <<>>
    /\ Head(responses).uuid # NULL /\ Head(responses).source_ip # NULL
    /\ LET r == Head(responses)
           info == process_device_info(devices, events, r.uuid, r.source_ip,
                                       DefaultPort, now)
       IN  /\ devices' = info.devices
           /\ events' = info.events
           /\ discovered' = Append(discovered, info.device_data)
           /\ \E cr \in ContextsResponses :
                /\ details + Len(cr.contexts) <= MaxContexts
                /\ details' = details + Len(cr.contexts)
                /\ tx' = IF cr.ok
                         THEN [base_contexts |-> contexts, base_points |-> points,
                               began |-> now, contexts |-> contexts,
                               data |-> cr.contexts,
                               device_id |-> info.device_data.id,
                               existing |-> Rows(contexts,
                                   LAMBDA c : c.device_id = info.device_data.id),
                               i |-> 1, open |-> TRUE, points |-> points]
                         ELSE NoBatch
                /\ last' = Last("batch_begin", [uuid |-> r.uuid, contexts |-> cr],
                                info.device_data, <<[type |-> "contexts"]>>)
    /\ responses' = Tail(responses)
    /\ UNCHANGED <<contexts, points, now, dpc, round, refreshVars, ops>>

\* _process_device_contexts, one pass of the loop over contexts_data: the
\* rows are changed and flushed in the session only
BatchContext ==
    /\ tx.open
    /\ tx.i <= Len(tx.data)
    /\ LET done == process_contexts_from(tx.contexts, tx.points, tx.existing,
                                         tx.device_id, <<tx.data[tx.i]>>, 1, tx.began)
       IN  tx' = [tx EXCEPT !.contexts = done.contexts, !.points = done.points,
                            !.i = tx.i + 1]
    /\ last' = Last("batch_context", [began |-> tx.began, i |-> tx.i],
                    NoResult, <<>>)
    /\ UNCHANGED <<devices, contexts, points, events, now, discoveryVars,
                   refreshVars, ops, details>>

\* _process_device_contexts, "db.session.commit()" after the loop
BatchCommit ==
    /\ tx.open
    /\ tx.i > Len(tx.data)
    /\ contexts' = tx.contexts
    /\ points' = commit_points(points, tx.base_points, tx.points)
    /\ tx' = NoBatch
    /\ last' = Last("batch_commit", tx, NoResult, <<>>)
    /\ UNCHANGED <<devices, events, now, discoveryVars, refreshVars, ops, details>>

\* _process_device_contexts, the except clause: a step of the batch (a query,
\* a flush, a point definition, the commit) raised
BatchFails ==
    /\ tx.open
    /\ contexts' = rollback(contexts, tx.contexts)
    /\ points' = rollback(points, commit_points(points, tx.base_points, tx.points))
    /\ tx' = NoBatch
    /\ last' = Last("batch_failed", tx, NoResult, <<>>)
    /\ UNCHANGED <<devices, events, now, discoveryVars, refreshVars, ops, details>>

\* discover_devices, one pass of the loop over the responses in which
\* _process_device_info raised (a query, the flush or the commit of the
\* upsert): the except clause rolls the session back and returns None, so
\* nothing is appended to discovered_devices and no contexts are requested
UpsertFails ==
    /\ dpc = "responses"
    /\ responses # <<>>
    /\ Head(responses).uuid # NULL /\ Head(responses).source_ip # NULL
    /\ responses' = Tail(responses)
    /\ last' = Last("upsert_failed", Head(responses), NoResult, <<>>)
    /\ UNCHANGED <<devices, contexts, points, events, now, dpc, discovered, round,
                   refreshVars, ops, details>>

\* write_device_context whose device acknowledged the write and whose commit
\* of the 'write' event raised: the point values were committed before, the
\* except clause rolls the event back and returns the failure
WriteEventFails ==
    /\ ops + SyncCost <= MaxOps
    /\ ops' = ops + SyncCost
    /\ now' = now + 1
    /\ \E device_id \in 1..Len(devices), context_id \in 1..Len(contexts),
          points_data \in WriteRequests :
         LET validated == validated_points(points, context_id, points_data)
             response == [kind |-> "mcp", success |-> TRUE, error |-> NULL,
                          points |-> {x.point_id : x \in validated}]
         IN  /\ DeviceUsable(devices, device_id)
             /\ validated # {}
             /\ points' = persist_points(points, context_id,
                                         Persisted(validated, response), now + 1)
             /\ last' = Last("write",
                             [device_id |-> device_id, context_id |-> context_id,
                              points_data |-> points_data, response |-> response],
                             [success |-> FALSE, error |-> "commit failed"],
                             <<[type |-> "write",
                                context |-> contexts[context_id].context_id,
                                points |-> validated]>>)
    /\ UNCHANGED <<devices, contexts, events, discoveryVars, refreshVars, details>>

\* One discovery round at a time, its batches step by step, and the refresh
\* pass and the writes of the other threads in between
NextBatch ==
    \/ BatchIdle /\ Broadcast /\ UNCHANGED <<loopVars, tx, wireVars>>
    \/ BatchIdle /\ SkipResponse /\ UNCHANGED <<loopVars, tx, wireVars>>
    \/ BatchIdle /\ UpdateStatus /\ UNCHANGED <<loopVars, tx, wireVars>>
    \/ BatchBegin /\ UNCHANGED <<loopVars, wireVars>>
    \/ BatchContext /\ UNCHANGED <<loopVars, wireVars>>
    \/ BatchCommit /\ UNCHANGED <<loopVars, wireVars>>
    \/ BatchFails /\ UNCHANGED <<loopVars, wireVars>>
    \/ BatchIdle /\ UpsertFails /\ UNCHANGED <<loopVars, tx, wireVars>>
    \/ RefreshAll /\ UNCHANGED <<loopVars, tx, wireVars>>
    \/ RefreshDevice /\ UNCHANGED <<loopVars, tx, wireVars>>
    \/ RefreshContext /\ UNCHANGED <<loopVars, tx, wireVars>>
    \/ WriteDeviceContext /\ UNCHANGED <<loopVars, tx, wireVars>>
    \/ WritePointValue /\ UNCHANGED <<loopVars, tx, wireVars>>
    \/ WriteEventFails /\ UNCHANGED <<loopVars, tx, wireVars>>

SpecBatch == Init /\ [][NextBatch]_vars

(***************************************************************************)
(* Properties                                                              *)
(***************************************************************************)
\* a discovery round has just ended: the liveness pass was the last step
RoundEnded == last.op = "update_status"

\* the uuids of the round's discovered_devices
RoundDiscovered == last.input

\* the events appended since the round began / by the last step
RoundEvents == Added(events, Len(round.pre_events))
StepEvents == Added(events, Len(last.pre_events))

\* the status_change events with message msg for device id among evs
StatusChanges(evs, id, msg) ==
    Count(evs, LAMBDA e : /\ e.device_id = id
                          /\ e.event_type = "status_change"
                          /\ e.message = msg)

EventsOf(evs, id) == Count(evs, LAMBDA e : e.device_id = id)

\* the devices known before the round that its discovered set lacks
Absent == {i \in 1..Len(round.pre_devices) :
             round.pre_devices[i].uuid \notin RoundDiscovered}

\* C1: after a discovery round, every device that was online before it and
\* is absent from its discovered set is offline, with exactly one "went
\* offline" status_change event appended by the round; a device that was
\* offline before the round and is absent got no event from it.
C1_AbsentGoOffline ==
    RoundEnded =>
        \A i \in Absent :
            IF round.pre_devices[i].is_online
            THEN /\ ~devices[i].is_online
                 /\ StatusChanges(RoundEvents, i, "Device went offline") = 1
                 /\ StatusChanges(RoundEvents, i, "Device came online") = 0
            ELSE /\ ~devices[i].is_online
                 /\ EventsOf(RoundEvents, i) = 0

C1_Witness ==
    /\ RoundEnded
    /\ \E i \in Absent : round.pre_devices[i].is_online /\ ~devices[i].is_online
    /\ RoundDiscovered # {}

\* the write that was the last step, and what it was given
Wrote == last.op = "write"
WriteSent == Wrote /\ last.sent # <<>>
Requested == {x.point_id : x \in last.input.points_data}

\* the rows of the written context that hold point id, before the write
PointRows(id) ==
    {i \in 1..Len(last.pre_points) :
        /\ last.pre_points[i].context_id = last.input.context_id
        /\ last.pre_points[i].point_id = id}

Changed(i) == points[i] # last.pre_points[i]

\* C2: after a successful write, every point whose stored value or timestamp
\* changed is in the acknowledged point set of the response.
C2_OnlyAcknowledgedPersisted ==
    (WriteSent /\ last.result.success) =>
        /\ Len(points) = Len(last.pre_points)
        /\ \A i \in 1..Len(points) :
               Changed(i) =>
                   /\ points[i].context_id = last.input.context_id
                   /\ points[i].point_id \in last.input.response.points

\* the write resolved its device and its context
Resolved ==
    /\ last.input.device_id <= Len(last.pre_devices)
    /\ last.pre_devices[last.input.device_id].is_online
    /\ last.input.context_id <= Len(last.pre_contexts)

\* no point asked for is both registered in the context and writable
NoneWritable ==
    \A id \in Requested :
        \A i \in PointRows(id) : last.pre_points[i].access \notin {"W", "RW"}

NothingStored == points = last.pre_points /\ events = last.pre_events

\* C3: a write of which every requested point is unknown in the context or
\* not writable sends nothing and changes no stored value and no event, and
\* once device and context are resolved it fails with 'No valid writable
\* points'.
C3_NoWritablePoints ==
    (Wrote /\ NoneWritable) =>
        /\ last.sent = <<>>
        /\ NothingStored
        /\ ~last.result.success
        /\ Resolved => last.result.error = "No valid writable points"

C3_Witness ==
    /\ Wrote /\ Resolved /\ NoneWritable
    /\ \E id \in Requested : PointRows(id) # {}
    /\ \E id \in Requested : PointRows(id) = {}
    /\ last.result.error = "No valid writable points"

\* C4: a write that gets no response, or a response without success, changes
\* no point and appends no event, and returns a failure carrying the device's
\* error message ('Unknown error' when it has none, 'Failed to write to
\* device' when there is no response).
C4_FailedWriteChangesNothing ==
    (WriteSent /\ (last.input.response.kind = "none" \/ ~last.input.response.success)) =>
        /\ NothingStored
        /\ ~last.result.success
        /\ last.result.error =
              IF last.input.response.kind = "none" THEN "Failed to write to device"
              ELSE IF last.input.response.error = NULL THEN "Unknown error"
              ELSE last.input.response.error

C4_Witness ==
    /\ WriteSent
    /\ last.input.response.kind = "mcp"
    /\ last.result.error = "Device busy"
    /\ \E x \in last.input.points_data :
          \E i \in PointRows(x.point_id) :
              /\ last.pre_points[i].access = "RW"
              /\ last.pre_points[i].value # Str(x.value)

\* C5: after a discovery round whose broadcast returned no response, every
\* known device is offline, and each device that was online before the round
\* has exactly one status_change event from it.
C5_SilentRoundAllOffline ==
    (RoundEnded /\ round.responses = <<>>) =>
        /\ Len(devices) = Len(round.pre_devices)
        /\ \A i \in 1..Len(devices) :
              /\ ~devices[i].is_online
              /\ round.pre_devices[i].is_online =>
                    Count(RoundEvents, LAMBDA e : /\ e.device_id = i
                                                  /\ e.event_type = "status_change") = 1

C5_Witness ==
    /\ RoundEnded
    /\ round.responses = <<>>
    /\ Cardinality({i \in 1..Len(devices) : round.pre_devices[i].is_online}) = 2

\* the devices known before the round that its discovered set holds
Rediscovered == {i \in 1..Len(round.pre_devices) :
                   round.pre_devices[i].uuid \in RoundDiscovered}

\* C6: after a discovery round, a re-discovered device that was offline
\* before it is online with exactly one "came online" status_change event
\* from the round, and a re-discovered device that was online has no
\* status_change event from the round.
C6_CameOnlineEvent ==
    RoundEnded =>
        \A i \in Rediscovered :
            /\ devices[i].is_online
            /\ IF round.pre_devices[i].is_online
               THEN Count(RoundEvents, LAMBDA e : /\ e.device_id = i
                                                  /\ e.event_type = "status_change") = 0
               ELSE StatusChanges(RoundEvents, i, "Device came online") = 1

\* the last step processed a response of a device known before it
Known == FindDevice(last.pre_devices, last.input.uuid)
Rediscovery == last.op = "response" /\ Known # 0

\* C7 as stated: re-discovery leaves last_seen as it was, and only
\* refresh_device changes the last_seen of an existing device.
C7_DiscoveryKeepsLastSeen ==
    \A i \in 1..Len(last.pre_devices) :
        devices[i].last_seen # last.pre_devices[i].last_seen =>
            last.op = "refresh_device" /\ last.input = i

\* C7 amended: re-discovery sets the device's last_seen to the time of the
\* discovery, and the last_seen of an existing device is changed only by
\* re-discovery and by refresh_device.
C7_LastSeenWriters ==
    /\ Rediscovery => devices[Known].last_seen = now
    /\ \A i \in 1..Len(last.pre_devices) :
          devices[i].last_seen # last.pre_devices[i].last_seen =>
              \/ last.op = "refresh_device" /\ last.input = i
              \/ Rediscovery /\ Known = i

C7_Witness ==
    /\ Rediscovery
    /\ devices[Known].last_seen # last.pre_devices[Known].last_seen
    /\ last.pre_devices[Known].is_online

DiscoveryEvents(evs) == Count(evs, LAMBDA e : e.event_type = "discovery")

\* C8: no two Device rows share a uuid and no row's uuid changes; a response
\* with an unknown uuid creates exactly one Device, online, with exactly one
\* 'discovery' event, a response with a known uuid creates neither, and no
\* other step creates a Device.
C8_OneDevicePerUuid ==
    /\ \A i, j \in 1..Len(devices) : devices[i].uuid = devices[j].uuid => i = j
    /\ Len(devices) >= Len(last.pre_devices)
    /\ \A i \in 1..Len(last.pre_devices) : devices[i].uuid = last.pre_devices[i].uuid
    /\ IF last.op = "response" /\ Known = 0
       THEN /\ Len(devices) = Len(last.pre_devices) + 1
            /\ devices[Len(devices)].uuid = last.input.uuid
            /\ devices[Len(devices)].is_online
            /\ DiscoveryEvents(StepEvents) = 1
            /\ StepEvents[1].device_id = Len(devices)
       ELSE /\ Len(devices) = Len(last.pre_devices)
            /\ DiscoveryEvents(StepEvents) = 0

C8_Witness ==
    /\ Rediscovery
    /\ Len(round.responses) = 2
    /\ round.responses[1].uuid = round.responses[2].uuid
    /\ responses = <<>>
    /\ round.pre_devices = <<>>

\* C9: no device has two Context rows with the same context id.
C9_OneContextPerId ==
    \A i, j \in 1..Len(contexts) :
        (/\ contexts[i].device_id = contexts[j].device_id
         /\ contexts[i].context_id = contexts[j].context_id) => i = j

\* the rows of points before the last step that held a value
Valued == {i \in 1..Len(last.pre_points) : last.pre_points[i].value # NULL}

Kept(i) ==
    /\ points[i].value = last.pre_points[i].value
    /\ points[i].last_updated = last.pre_points[i].last_updated

\* the values that the contexts response of the last step supplies for the
\* point of row i
SuppliedByDiscovery(i) ==
    LET cs == last.input.contexts.contexts
        row == last.pre_points[i]
        ctx == last.pre_contexts[row.context_id]
    IN  {x.value : x \in UNION {cs[k].points :
                     k \in {n \in 1..Len(cs) :
                              /\ cs[n].id = ctx.context_id
                              /\ ctx.device_id = last.result.id}}
                   \cap [point_id : {row.point_id}, access : AccessModes,
                         value : RawValues]}

\* C10: a stored value that is known is never overwritten because of a null
\* incoming value: a point for which discovery, a refresh read or a write
\* supplies only null keeps its value and its timestamp.
C10_NullNeverOverwrites ==
    \A i \in Valued :
        /\ (last.op = "response" /\ SuppliedByDiscovery(i) \subseteq {NULL}) => Kept(i)
        /\ (/\ last.op = "refresh_context"
            /\ last.pre_points[i].context_id = last.input.context
            /\ \A x \in last.input.response.points :
                  x.point_id = last.pre_points[i].point_id => x.value = NULL) => Kept(i)
        /\ (/\ Wrote
            /\ last.pre_points[i].context_id = last.input.context_id
            /\ \A x \in last.input.points_data :
                  x.point_id = last.pre_points[i].point_id => x.value = NULL) => Kept(i)

\* the write of either kind that was the last step
WroteAny == last.op \in {"write", "write_point"}

\* the requested entries whose point the written context registers with access
\* W or RW
ExistingWritable ==
    {x \in last.input.points_data :
        /\ PointRows(x.point_id) # {}
        /\ last.pre_points[Min(PointRows(x.point_id))].access \in {"W", "RW"}}

\* C11: a write (write_device_context or write_point_value) sends at most one
\* message, which carries exactly the requested entries whose point exists in
\* the context and is writable, and it changes no stored point other than
\* writable points of the context carried by that message.
C11_OnlyWritableWritten ==
    WroteAny =>
        /\ Len(last.sent) <= 1
        /\ \A k \in 1..Len(last.sent) :
               /\ last.sent[k].type = "write"
               /\ last.sent[k].points = ExistingWritable
               /\ last.sent[k].points # {}
        /\ Len(points) = Len(last.pre_points)
        /\ \A i \in 1..Len(points) :
               Changed(i) =>
                   /\ last.pre_points[i].access \in {"W", "RW"}
                   /\ last.pre_points[i].context_id = last.input.context_id
                   /\ last.sent # <<>>
                   /\ last.pre_points[i].point_id \in
                          {x.point_id : x \in ExistingWritable}

\* a successful multi-point write that asked for a registered read-only point
\* next to a writable one
C11_Witness ==
    /\ Wrote /\ last.sent # <<>> /\ last.result.success
    /\ \E x \in last.input.points_data :
          /\ PointRows(x.point_id) # {}
          /\ x \notin last.sent[1].points
    /\ \E i \in 1..Len(points) : Changed(i)

\* the single-point write that was the last step
WrotePoint == last.op = "write_point"

\* C12: write_point_value behaves as the multi-point write restricted to one
\* point: it sends nothing and stores nothing when the point is missing or not
\* writable, and it changes the stored value or timestamp of a point only
\* when the response is successful and acknowledges that point.
C12_SinglePointAsMultiPoint ==
    WrotePoint =>
        /\ ExistingWritable = {} => (last.sent = <<>> /\ NothingStored)
        /\ Len(points) = Len(last.pre_points)
        /\ \A i \in 1..Len(points) :
               Changed(i) =>
                   /\ last.sent # <<>>
                   /\ last.input.response.kind = "mcp"
                   /\ last.input.response.success
                   /\ last.pre_points[i].context_id = last.input.context_id
                   /\ last.pre_points[i].point_id \in Requested
                   /\ last.pre_points[i].point_id \in last.input.response.points

\* the 'write' events among evs
WriteEvents(evs) == SelectSeq(evs, LAMBDA e : e.event_type = "write")

\* the ids of the points whose stored value the last step changed
ValueChanged ==
    {points[i].point_id : i \in {j \in 1..Len(last.pre_points) :
                                    points[j].value # last.pre_points[j].value}}

\* the ids of the points the last step stored: value assigned and last_updated
\* stamped
Stored ==
    {points[i].point_id : i \in {j \in 1..Len(last.pre_points) :
                                    points[j].last_updated # last.pre_points[j].last_updated}}

Merged == last.op = "refresh_context" /\ last.input.response.ok

\* the non-null values the read response returns for the point of row i of
\* the refreshed context
Returned(i) ==
    {x.value : x \in {y \in last.input.response.points :
                         /\ last.pre_points[i].context_id = last.input.context
                         /\ y.point_id = last.pre_points[i].point_id
                         /\ y.value # NULL}}

\* C14: when refresh merges a read response, each returned non-null value of a
\* known point is stored as its string form and last_updated is stamped only
\* if the stored value changed; a point whose returned value equals its
\* stored string keeps value and timestamp, as does every point for which
\* nothing or null was returned.
C14_MergeStoresStringForm ==
    Merged =>
        /\ Len(points) = Len(last.pre_points)
        /\ \A i \in 1..Len(points) :
               IF Returned(i) = {}
               THEN points[i] = last.pre_points[i]
               ELSE \E v \in Returned(i) :
                      /\ points[i] = [last.pre_points[i] EXCEPT
                                         !.value = Str(v),
                                         !.last_updated =
                                             IF last.pre_points[i].value = Str(v)
                                             THEN @ ELSE now]
                      /\ last.pre_points[i].value = Str(v) => Kept(i)

\* a merge that stored a new value for one point and met the stored value of
\* another
C14_Witness ==
    /\ Merged
    /\ \E i \in 1..Len(points) :
          /\ Returned(i) # {} /\ Kept(i)
          /\ last.pre_points[i].last_updated # now
    /\ \E i \in 1..Len(points) :
          /\ Returned(i) # {}
          /\ points[i].value # last.pre_points[i].value
          /\ points[i].last_updated = now

\* the refresh of a context whose read failed (no response, or a response
\* without an mcp envelope) in the last step
ReadFailed == last.op = "refresh_context" /\ ~last.input.response.ok

\* C15: in a refresh pass, a failed read of a context of an online device is
\* recorded as an 'error' event of that device, and the pass goes on with the
\* contexts and devices still to be refreshed.
C15_RefreshFailureRecorded ==
    ReadFailed =>
        /\ \E k \in 1..Len(StepEvents) :
              /\ StepEvents[k].event_type = "error"
              /\ StepEvents[k].device_id =
                     last.pre_contexts[last.input.context].device_id
        /\ (rcontexts # <<>> \/ rdevices # <<>>) => rpc # "idle"

\* log extends prefix: prefix is an initial segment of log
Extends(log, prefix) ==
    /\ Len(prefix) <= Len(log)
    /\ SubSeq(log, 1, Len(prefix)) = prefix

\* C20: the event log is append-only: the log after a step extends the log
\* before it, and the log during and after a discovery round extends the log
\* at the beginning of the round, so no committed event is modified or removed.
C20_EventsAppendOnly ==
    /\ Extends(events, last.pre_events)
    /\ Extends(events, round.pre_events)

\* a step that appended an event to a log of committed events, in a round
\* that had appended one before
C20_Witness ==
    /\ last.pre_events # <<>>
    /\ StepEvents # <<>>
    /\ Len(round.pre_events) < Len(last.pre_events)

\* a loop is past its start and has not returned
DiscoveryRunning == dloop \in {"test", "round", "wait"}
RefreshRunning == rloop \in {"test", "round", "wait"}


\* C16: within one loop rounds never overlap: a round is in flight only while
\* the loop's thread is in it, the thread enters a round only from the loop
\* test, reaches the loop test only from the start of the loop or from the
\* wait, and enters the wait only from a round that has returned or raised.
C16_RoundsNeverOverlap ==
    /\ [](dpc # "idle" => dloop = "round")
    /\ [](rpc # "idle" => rloop = "round")
    /\ [][/\ (dloop' = "round" /\ dloop # "round") => dloop = "test"
          /\ (dloop' = "test" /\ dloop # "test") => dloop \in {"clearing", "wait"}
          /\ (dloop' = "wait" /\ dloop # "wait") =>
                 /\ dloop = "round"
                 /\ dpc' = "idle"
                 /\ last'.op \in {"update_status", "discovery_raised"}
          /\ (dloop = "round" /\ dloop' # "round") => dloop' = "wait"
          /\ (rloop' = "round" /\ rloop # "round") => rloop = "test"
          /\ (rloop' = "test" /\ rloop # "test") => rloop \in {"clearing", "wait"}
          /\ (rloop' = "wait" /\ rloop # "wait") =>
                 /\ rloop = "round"
                 /\ rpc' = "idle"
                 /\ last'.op \in {"refresh_all", "refresh_device", "refresh_context",
                                  "refresh_raised"}
          /\ (rloop = "round" /\ rloop' # "round") => rloop' = "wait"]_positions

\* a round of the discovery loop in flight after a round of that loop that
\* registered a device, the refresh loop being in the round after one that
\* raised
C16_Witness ==
    /\ dloop = "round" /\ dpc = "responses"
    /\ round.pre_devices # <<>>
    /\ rloop = "round" /\ rlog > 0

\* the loop has returned and its active flag is reset
DiscoveryEnded == dloop = "done" /\ ~discovery_active
RefreshEnded == rloop = "done" /\ ~refresh_active

\* a stop is requested of a running loop whose thread is not about to begin
\* a round (a round about to begin collects an unknown number of responses)
DiscoveryStopping ==
    DiscoveryRunning /\ dstop /\ ~(dloop = "round" /\ dpc = "idle")
RefreshStopping ==
    RefreshRunning /\ rstop /\ ~(rloop = "round" /\ rpc = "idle")

\* the steps the thread of a loop has to take before it returns, once a stop
\* is requested: the rest of the round in flight, the wait, the loop test
DiscoveryDistance ==
    CASE dloop = "test" -> 1
      [] dloop = "wait" -> 2
      [] dloop = "round" -> 4 + Len(responses)
      [] OTHER -> 0
RefreshDistance ==
    CASE rloop = "test" -> 1
      [] rloop = "wait" -> 2
      [] rloop = "round" -> 3 + Len(rdevices) * (MaxContexts + 1) + Len(rcontexts)
      [] OTHER -> 0

\* C17: once a stop is requested of a running loop, the request stays, no new
\* round is entered, a round in flight is left only by its own end (its last
\* step or an exception), and the loop returns with its active flag False:
\* its thread always has a step to take, in the wait without the interval
\* elapsing, and every step of the thread brings it nearer to its return.
C17_StopEndsLoop ==
    /\ [](dloop = "done" => ~discovery_active)
    /\ [](rloop = "done" => ~refresh_active)
    /\ [](DiscoveryStopping => ENABLED DiscoveryThread)
    /\ [](RefreshStopping => ENABLED RefreshThread)
    /\ [][/\ (DiscoveryRunning /\ dstop) =>
                 /\ dstop'
                 /\ ~(dloop # "round" /\ dloop' = "round")
                 /\ (dloop = "round" /\ dloop' # "round") =>
                        /\ dloop' = "wait"
                        /\ last'.op \in {"update_status", "discovery_raised"}
          /\ (DiscoveryStopping /\ discoveryPosition' # discoveryPosition) =>
                 DiscoveryDistance' < DiscoveryDistance
          /\ (RefreshRunning /\ rstop) =>
                 /\ rstop'
                 /\ ~(rloop # "round" /\ rloop' = "round")
                 /\ (rloop = "round" /\ rloop' # "round") =>
                        /\ rloop' = "wait"
                        /\ last'.op \in {"refresh_all", "refresh_device",
                                         "refresh_context", "refresh_raised"}
          /\ (RefreshStopping /\ refreshPosition' # refreshPosition) =>
                 RefreshDistance' < RefreshDistance]_positions

\* the discovery loop has returned on a stop requested while a round that
\* registered a device was in flight or the wait after it was in progress
C17_Witness ==
    /\ DiscoveryEnded
    /\ last.op = "discovery_test" /\ last.input.stop
    /\ devices # <<>>

\* C18: a round that fails does not end the loop: after an exception left the
\* round the loop has logged it, is in its wait and is still active; the loop
\* returns only from its test with the stop event set; and unless a stop is
\* requested the wait can end with the interval and the test then enters the
\* next round.
C18_FailedRoundKeepsLoop ==
    /\ [](last.op = "discovery_raised" => (dloop = "wait" /\ discovery_active))
    /\ [](last.op = "refresh_raised" => (rloop = "wait" /\ refresh_active))
    /\ []((dloop \in {"test", "wait"} /\ ~dstop) =>
              ENABLED (DiscoveryThread \/ DiscoveryIntervalElapses))
    /\ []((rloop \in {"test", "wait"} /\ ~rstop) =>
              ENABLED (RefreshThread \/ RefreshIntervalElapses))
    /\ [][/\ (dloop' = "done" /\ dloop # "done") => (dloop = "test" /\ dstop)
          /\ (dloop = "round" /\ dloop' # "round") => dloop' = "wait"
          /\ (dloop = "wait" /\ dloop' # "wait") => dloop' = "test"
          /\ (dloop = "test" /\ ~dstop /\ dloop' # "test") => dloop' = "round"
          /\ dlog' # dlog => (dlog' = dlog + 1 /\ last'.op = "discovery_raised")
          /\ (rloop' = "done" /\ rloop # "done") => (rloop = "test" /\ rstop)
          /\ (rloop = "round" /\ rloop' # "round") => rloop' = "wait"
          /\ (rloop = "wait" /\ rloop' # "wait") => rloop' = "test"
          /\ (rloop = "test" /\ ~rstop /\ rloop' # "test") => rloop' = "round"
          /\ rlog' # rlog => (rlog' = rlog + 1 /\ last'.op = "refresh_raised")
         ]_<<positions, dlog, rlog>>

\* the round after a round that raised is in flight in the discovery loop,
\* and the refresh loop has entered the round after one that raised
C18_Witness ==
    /\ dlog > 0 /\ dloop = "round" /\ dpc = "responses" /\ ~dstop
    /\ rlog > 0 /\ rloop = "round" /\ ~rstop

\* the batch that the last step committed or dropped
EndedBatch == last.input

\* the rows of the committed tables show nothing of the batch b: no context
\* row and no point row was added, no context and no access mode changed
Unapplied(b) ==
    /\ contexts = b.base_contexts
    /\ Len(points) = Len(b.base_points)
    /\ \A k \in 1..Len(points) :
          /\ points[k].access = b.base_points[k].access
          /\ points[k].context_id = b.base_points[k].context_id
          /\ points[k].point_id = b.base_points[k].point_id

\* C19: the reconciliation of one device's contexts and points is atomic:
\* while the batch is in progress the committed tables, which are all that
\* the refresh pass and the writes read, show nothing of it; a batch that
\* fails leaves them as they were, without any of its changes; a batch that
\* commits applies all of its changes in that one step.
C19_BatchAtomic ==
    /\ tx.open => Unapplied(tx)
    /\ last.op = "batch_context" =>
           (contexts = last.pre_contexts /\ points = last.pre_points)
    /\ last.op = "batch_failed" =>
           /\ contexts = last.pre_contexts /\ points = last.pre_points
           /\ Unapplied(EndedBatch)
    /\ last.op = "batch_commit" =>
           /\ last.pre_contexts = EndedBatch.base_contexts
           /\ Len(last.pre_points) = Len(EndedBatch.base_points)
           /\ contexts = EndedBatch.contexts
           /\ Len(points) = Len(EndedBatch.points)
           /\ \A k \in 1..Len(points) :
                 /\ points[k].access = EndedBatch.points[k].access
                 /\ k > Len(EndedBatch.base_points) => points[k] = EndedBatch.points[k]

\* a batch failed after it had registered a context and points in its
\* session, and the refresh pass had refreshed its device meanwhile
C19_Witness ==
    /\ last.op = "batch_failed"
    /\ Len(EndedBatch.contexts) > Len(contexts)
    /\ Len(EndedBatch.points) > Len(points)
    /\ devices[EndedBatch.device_id].last_seen > EndedBatch.began

(***************************************************************************)
(* Context paths (src/context.py). A Python value is a record named by its  *)
(* type; a string is the sequence of its characters.                        *)
(***************************************************************************)
\* the characters of a path, at most
MaxLen == 3
\* the subcontext parts given to build_context_path, at most
MaxParts == 2

PyNone == [none |-> TRUE]
PyStr(s) == [str |-> s]
PyInt(n) == [int |-> n]
PyList(l) == [list |-> l]
PyBool(b) == [bool |-> b]

\* isinstance(v, str)
IsStr(v) == "str" \in DOMAIN v

\* the truth value of a Python value, as "not v" tests it
Truthy(v) ==
    CASE "none" \in DOMAIN v -> FALSE
      [] "str" \in DOMAIN v -> v.str # <<>>
      [] "int" \in DOMAIN v -> v.int # 0
      [] "list" \in DOMAIN v -> v.list # <<>>
      [] "bool" \in DOMAIN v -> v.bool
      [] "float" \in DOMAIN v -> v.float # 0
      [] OTHER -> TRUE

PathChars == {"a", "B", "1", "2", "."}
Alpha == {"a", "B"}
Digits == {"0", "1", "2"}
\* str.lower() of a character
lower(c) == IF c = "B" THEN "b" ELSE c
DigitValue(c) == IF c = "0" THEN 0 ELSE IF c = "1" THEN 1 ELSE 2
Unknown == <<"u", "n", "k", "n", "o", "w", "n">>

\* the strings of at most n characters
Strings(n) == UNION {[1..k -> PathChars] : k \in 0..n}

\* s.split('.')
RECURSIVE split(_)
split(s) ==
    IF s = <<>> THEN << <<>> >>
    ELSE IF Head(s) = "." THEN << <<>> >> \o split(Tail(s))
    ELSE LET rest == split(Tail(s))
         IN  << <<Head(s)>> \o Head(rest) >> \o Tail(rest)

\* the parts joined, were no dot put between them
RECURSIVE join_NoDots(_)
join_NoDots(parts) ==
    IF parts = <<>> THEN <<>> ELSE parts[1] \o join_NoDots(Tail(parts))

\* '.'.join(parts)
RECURSIVE join(_)
join(parts) ==
    IF parts = <<>> THEN <<>>
    ELSE IF Len(parts) = 1 THEN parts[1]
    ELSE parts[1] \o <<".">> \o join(Tail(parts))

\* ''.join(c for c in s if c in class)
RECURSIVE filter(_, _)
filter(s, class) ==
    IF s = <<>> THEN <<>>
    ELSE IF Head(s) \in class THEN <<Head(s)>> \o filter(Tail(s), class)
    ELSE filter(Tail(s), class)

\* int(s) of a string of digits
RECURSIVE int_of_digits(_)
int_of_digits(s) ==
    IF s = <<>> THEN 0
    ELSE 10 * int_of_digits(SubSeq(s, 1, Len(s) - 1)) + DigitValue(s[Len(s)])

\* s.isdigit()
isdigit(s) == s # <<>> /\ \A k \in 1..Len(s) : s[k] \in Digits

parse_context_path(context_path) ==
    IF ~Truthy(context_path) \/ ~IsStr(context_path)
    THEN <<PyStr(<<>>), PyNone>>
    ELSE LET parts == split(context_path.str)
         IN  IF Len(parts) <= 1 THEN <<context_path, PyNone>>
             ELSE <<PyStr(parts[1]), PyList(Tail(parts))>>

build_context_path(context_id, subcontext_parts) ==
    IF ~Truthy(subcontext_parts) THEN context_id
    ELSE PyStr(context_id.str \o <<".">> \o join(subcontext_parts.list))

\* is_valid_context_path, were only the first part tested
is_valid_context_path_FirstPartOnly(context_path) ==
    IF ~Truthy(context_path) \/ ~IsStr(context_path) THEN FALSE
    ELSE LET parts == split(context_path.str)
         IN  ~(parts = <<>> \/ parts[1] = <<>>)

is_valid_context_path(context_path) ==
    IF ~Truthy(context_path) \/ ~IsStr(context_path) THEN FALSE
    ELSE LET parts == split(context_path.str)
         IN  IF parts = <<>> \/ parts[1] = <<>> THEN FALSE
             ELSE \A k \in 1..Len(parts) : parts[k] # <<>>

get_context_type(context_path) ==
    IF ~Truthy(context_path) \/ ~IsStr(context_path) THEN PyStr(Unknown)
    ELSE LET parts == split(context_path.str)
             context_type == filter(parts[1], Alpha)
         IN  IF parts = <<>> THEN PyStr(Unknown)
             ELSE IF context_type # <<>>
                  THEN PyStr([k \in 1..Len(context_type) |-> lower(context_type[k])])
                  ELSE PyStr(Unknown)

get_context_index(context_path) ==
    IF ~Truthy(context_path) \/ ~IsStr(context_path) THEN PyNone
    ELSE LET parts == split(context_path.str)
             digits == filter(parts[1], Digits)
         IN  IF parts = <<>> THEN PyNone
             ELSE IF digits # <<>> THEN PyInt(int_of_digits(digits))
             ELSE IF Len(parts) > 1 /\ isdigit(parts[2])
                  THEN PyInt(int_of_digits(parts[2]))
                  ELSE PyNone

\* what a path function is called with: strings, and values that are no string
PathArgs ==
    {PyStr(s) : s \in Strings(MaxLen)}
        \cup {PyNone, PyInt(0), PyInt(5), PyList(<<>>), PyList(<< <<"a">> >>)}

\* what build_context_path is called with
BuildArgs ==
    [context_id : {PyStr(s) : s \in Strings(MaxLen - 1)},
     subcontext_parts :
        {PyNone} \cup
        {PyList(l) : l \in UNION {[1..k -> Strings(1)] : k \in 0..MaxParts}}]

\* no device, no thread, no call on the way
Quiet ==
    /\ devices = <<>>
    /\ contexts = <<>>
    /\ points = <<>>
    /\ events = <<>>
    /\ now = 0
    /\ dpc = "idle"
    /\ responses = <<>>
    /\ discovered = <<>>
    /\ round = [pre_devices |-> <<>>, pre_events |-> <<>>, responses |-> <<>>]
    /\ rpc = "idle"
    /\ rdevices = <<>>
    /\ rcontexts = <<>>
    /\ dloop = "off"
    /\ discovery_active = FALSE
    /\ dstop = FALSE
    /\ dlog = 0
    /\ rloop = "off"
    /\ refresh_active = FALSE
    /\ rstop = FALSE
    /\ rlog = 0
    /\ tx = NoBatch
    /\ ops = 0
    /\ details = 0
    /\ conn = [pc |-> "off", sock |-> "none", opened |-> 0,
               peer |-> [none |-> TRUE], stream |-> [none |-> TRUE],
               length_bytes |-> <<>>, data |-> <<>>,
               result |-> [none |-> TRUE], failure |-> "null"]
    /\ udp = [pc |-> "off", start |-> 0, since |-> 0, clock |-> 0,
              arrived |-> <<>>, responses |-> <<>>, error |-> "null"]
    /\ workers = [w \in 1..MaxWorkers |-> "off"]

\* the arguments of a call that is about to be made
Given(input) ==
    [call |-> "init", input |-> input, op |-> "init",
     pre_contexts |-> <<>>, pre_devices |-> <<>>,
     pre_events |-> <<>>, pre_points |-> <<>>,
     result |-> NoResult, sent |-> <<>>]

ParseContextPath ==
    /\ "context_path" \in DOMAIN last.input
    /\ last' = Last("parse_context_path", last.input,
                    parse_context_path(last.input.context_path), <<>>)

BuildContextPath ==
    /\ "context_id" \in DOMAIN last.input
    /\ last' = Last("build_context_path", last.input,
                    build_context_path(last.input.context_id,
                                       last.input.subcontext_parts), <<>>)

IsValidContextPath ==
    /\ "context_path" \in DOMAIN last.input
    /\ last' = Last("is_valid_context_path", last.input,
                    is_valid_context_path(last.input.context_path), <<>>)

GetContextType ==
    /\ "context_path" \in DOMAIN last.input
    /\ last' = Last("get_context_type", last.input,
                    get_context_type(last.input.context_path), <<>>)

GetContextIndex ==
    /\ "context_path" \in DOMAIN last.input
    /\ last' = Last("get_context_index", last.input,
                    get_context_index(last.input.context_path), <<>>)

(***************************************************************************)
(* SunSpec values (src/sunspec.py): parse_value and validate_value on the  *)
(* built-in model table. A finite float is the integer of its tenths.      *)
(***************************************************************************)
PyFloat(tenths) == [float |-> tenths]
PyInf == [inf |-> TRUE]
PyNan == [nan |-> TRUE]

\* the outcome of a conversion: the value, or the exception it raises
Value(v) == [raises |-> NULL, value |-> v]
Raises(e) == [raises |-> e, value |-> PyNone]
\* the outcome of a call: the value it returns, or the exception that leaves it
Return(v) == [returned |-> v]
Raise(e) == [raised |-> e]

\* self.models, three of its models with a point of each declared type; the
\* unit of a point that declares none is read as the empty string
Models ==
    [m \in {1, 101, 160} |->
        CASE m = 1 -> [p \in {"Mn"} |-> [type |-> "string", unit |-> <<>>]]
          [] m = 101 -> [p \in {"A", "W", "St"} |->
                            CASE p = "A" -> [type |-> "float", unit |-> <<"A">>]
                              [] p = "W" -> [type |-> "float", unit |-> <<"W">>]
                              [] OTHER -> [type |-> "enum16", unit |-> <<>>]]
          [] m = 160 -> [p \in {"ID", "St"} |->
                            [type |-> IF p = "ID" THEN "uint16" ELSE "enum16",
                             unit |-> <<>>]]]
\* get_point_info
get_point_info(model_id, point_id) ==
    IF model_id \in DOMAIN Models /\ point_id \in DOMAIN Models[model_id]
    THEN Models[model_id][point_id]
    ELSE PyNone

\* int(s) of a string: an optional sign and digits, or ValueError
int_literal(s) ==
    LET body == IF s # <<>> /\ Head(s) \in {"-", "+"} THEN Tail(s) ELSE s
    IN  IF ~isdigit(body) THEN Raises("ValueError")
        ELSE IF Head(s) = "-" THEN Value(PyInt(0 - int_of_digits(body)))
        ELSE Value(PyInt(int_of_digits(body)))

\* float(s) of a string, for the strings of RawValueArgs: an integer
\* literal, digits with a point and one digit, "inf", "nan", or ValueError
float_literal(s) ==
    LET body == IF s # <<>> /\ Head(s) \in {"-", "+"} THEN Tail(s) ELSE s
        tenths == 10 * int_of_digits(SubSeq(body, 1, Len(body) - 2))
                      + DigitValue(body[Len(body)])
    IN  IF int_literal(s).raises = NULL
        THEN Value(PyFloat(10 * int_literal(s).value.int))
        ELSE IF /\ Len(body) >= 3
                /\ body[Len(body) - 1] = "."
                /\ isdigit(SubSeq(body, 1, Len(body) - 2))
                /\ body[Len(body)] \in Digits
             THEN Value(PyFloat(IF Head(s) = "-" THEN 0 - tenths ELSE tenths))
        ELSE IF s = <<"i", "n", "f">> THEN Value(PyInf)
        ELSE IF s = <<"n", "a", "n">> THEN Value(PyNan)
        ELSE Raises("ValueError")

\* int(value)
py_int(v) ==
    CASE "int" \in DOMAIN v -> Value(v)
      [] "bool" \in DOMAIN v -> Value(PyInt(IF v.bool THEN 1 ELSE 0))
      [] "float" \in DOMAIN v ->
            Value(PyInt(IF v.float >= 0 THEN v.float \div 10
                        ELSE 0 - ((0 - v.float) \div 10)))
      [] "inf" \in DOMAIN v -> Raises("OverflowError")
      [] "nan" \in DOMAIN v -> Raises("ValueError")
      [] "str" \in DOMAIN v -> int_literal(v.str)
      [] OTHER -> Raises("TypeError")

\* float(value)
py_float(v) ==
    CASE "int" \in DOMAIN v -> Value(PyFloat(10 * v.int))
      [] "bool" \in DOMAIN v -> Value(PyFloat(IF v.bool THEN 10 ELSE 0))
      [] "float" \in DOMAIN v -> Value(v)
      [] "inf" \in DOMAIN v -> Value(v)
      [] "nan" \in DOMAIN v -> Value(v)
      [] "str" \in DOMAIN v -> float_literal(v.str)
      [] OTHER -> Raises("TypeError")

\* str(n) of an integer that is not negative
RECURSIVE digits_of(_)
digits_of(n) ==
    LET d == CASE n % 10 = 0 -> "0" [] n % 10 = 1 -> "1" [] n % 10 = 2 -> "2"
               [] n % 10 = 3 -> "3" [] n % 10 = 4 -> "4" [] n % 10 = 5 -> "5"
               [] n % 10 = 6 -> "6" [] n % 10 = 7 -> "7" [] n % 10 = 8 -> "8"
               [] OTHER -> "9"
    IN  IF n < 10 THEN <<d>> ELSE digits_of(n \div 10) \o <<d>>

\* str(value)
py_str(v) ==
    LET Abs(n) == IF n < 0 THEN 0 - n ELSE n
        Sign(n) == IF n < 0 THEN <<"-">> ELSE <<>>
    IN
    CASE "str" \in DOMAIN v -> Value(v)
      [] "int" \in DOMAIN v -> Value(PyStr(Sign(v.int) \o digits_of(Abs(v.int))))
      [] "float" \in DOMAIN v ->
            Value(PyStr(Sign(v.float) \o digits_of(Abs(v.float) \div 10)
                            \o <<".">> \o digits_of(Abs(v.float) % 10)))
      [] "inf" \in DOMAIN v -> Value(PyStr(<<"i", "n", "f">>))
      [] "nan" \in DOMAIN v -> Value(PyStr(<<"n", "a", "n">>))
      [] "bool" \in DOMAIN v ->
            Value(PyStr(IF v.bool THEN <<"T", "r", "u", "e">>
                        ELSE <<"F", "a", "l", "s", "e">>))
      [] "none" \in DOMAIN v -> Value(PyStr(<<"N", "o", "n", "e">>))
      [] OTHER -> Value(PyStr(<<"[", "]">>))


\* the conversion that the chain of tests on data_type selects
coerce(data_type, value) ==
    CASE data_type = "float" -> py_float(value)
      [] data_type \in {"uint16", "uint32", "uint64"} -> py_int(value)
      [] data_type \in {"int16", "int32", "int64"} -> py_int(value)
      [] data_type = "enum16" -> py_int(value)
      [] data_type = "string" -> py_str(value)
      [] data_type = "boolean" -> Value(PyBool(Truthy(value)))
      [] OTHER -> Value(value)

parse_value(model_id, point_id, value) ==
    LET point_info == get_point_info(model_id, point_id)
    IN  IF point_info = PyNone THEN Return(value)
        ELSE LET c == coerce(point_info.type, value)
             IN  IF c.raises = NULL THEN Return(c.value)
                 ELSE IF c.raises \in {"ValueError", "TypeError"} THEN Return(value)
                 ELSE Raise(c.raises)

\* what validate_value returns from its except clause
InvalidOnFailure == FALSE

validate_value(model_id, point_id, value) ==
    LET point_info == get_point_info(model_id, point_id)
    IN  IF point_info = PyNone THEN Return(TRUE)
        ELSE LET c == coerce(point_info.type, value)
             IN  IF c.raises = NULL
                 THEN IF point_info.type \in {"uint16", "uint32", "uint64"} /\ c.value.int < 0
                      THEN Return(FALSE)
                      ELSE Return(TRUE)
                 ELSE IF c.raises \in {"ValueError", "TypeError"} THEN Return(InvalidOnFailure)
                 ELSE Raise(c.raises)

\* f"{x:.2f}" of a float
format_2f_OneDigit(x) ==
    CASE "inf" \in DOMAIN x -> <<"i", "n", "f">>
      [] "nan" \in DOMAIN x -> <<"n", "a", "n">>
      [] OTHER -> py_str(x).value.str
format_2f(x) ==
    CASE "inf" \in DOMAIN x -> <<"i", "n", "f">>
      [] "nan" \in DOMAIN x -> <<"n", "a", "n">>
      [] OTHER -> py_str(x).value.str \o <<"0">>

format_value(model_id, point_id, value) ==
    LET point_info == get_point_info(model_id, point_id)
        number == py_float(value)
        formatted == IF point_info.type = "float" THEN format_2f(number.value)
                     ELSE py_str(value).value.str
    IN  IF value = PyNone THEN Return(PyStr(<<"N", "/", "A">>))
        ELSE IF point_info = PyNone THEN Return(py_str(value).value)
        ELSE IF point_info.type = "float" /\ number.raises # NULL
             THEN IF number.raises \in {"ValueError", "TypeError"}
                  THEN Return(py_str(value).value)
                  ELSE Raise(number.raises)
        ELSE IF point_info.unit # <<>>
             THEN Return(PyStr(formatted \o <<" ">> \o point_info.unit))
        ELSE Return(PyStr(formatted))

\* the raw values of a point: what a JSON document can hold
RawValueArgs ==
    {PyNone, PyBool(TRUE), PyBool(FALSE), PyInt(0 - 1), PyInt(0), PyInt(2),
     PyFloat(12), PyFloat(0 - 25), PyInf, PyNan, PyList(<<>>),
     PyStr(<<>>), PyStr(<<"2">>), PyStr(<<"-", "1">>), PyStr(<<"1", ".", "2">>),
     PyStr(<<"a">>), PyStr(<<"i", "n", "f">>)}

\* what parse_value and validate_value are called with: the models of the
\* table and one it does not hold, their points and one that no model holds
ValueArgs ==
    [model_id : DOMAIN Models \cup {999},
     point_id : {"Mn", "A", "W", "St", "ID", "Zz"},
     value : RawValueArgs]

ParseValue ==
    /\ "value" \in DOMAIN last.input
    /\ last' = Last("parse_value", last.input,
                 parse_value(last.input.model_id, last.input.point_id,
                             last.input.value), <<>>)

ValidateValue ==
    /\ "value" \in DOMAIN last.input
    /\ last' = Last("validate_value", last.input,
                 validate_value(last.input.model_id, last.input.point_id,
                                last.input.value), <<>>)

FormatValue ==
    /\ "value" \in DOMAIN last.input
    /\ last' = Last("format_value", last.input,
                 format_value(last.input.model_id, last.input.point_id,
                              last.input.value), <<>>)

\* The functions of src/context.py and src/sunspec.py, each applied to the
\* arguments that a behaviour begins with
InitPure ==
    /\ Quiet
    /\ \E a \in {[context_path |-> p] : p \in PathArgs} \cup BuildArgs \cup ValueArgs :
          last = Given(a)

NextPure ==
    \/ ParseContextPath /\ UNCHANGED <<registryVars, loopVars>>
    \/ BuildContextPath /\ UNCHANGED <<registryVars, loopVars>>
    \/ IsValidContextPath /\ UNCHANGED <<registryVars, loopVars>>
    \/ GetContextType /\ UNCHANGED <<registryVars, loopVars>>
    \/ GetContextIndex /\ UNCHANGED <<registryVars, loopVars>>
    \/ ParseValue /\ UNCHANGED <<registryVars, loopVars>>
    \/ ValidateValue /\ UNCHANGED <<registryVars, loopVars>>
    \/ FormatValue /\ UNCHANGED <<registryVars, loopVars>>

SpecPure == InitPure /\ [][NextPure]_vars

(***************************************************************************)
(* broadcast_discovery on the network (src/protocol.py): one collection of *)
(* discovery responses on its UDP socket. Time is counted in seconds.      *)
(*   udp.pc        "off", "recv" (blocked in recvfrom), "done" (returned)  *)
(*   udp.start     start_time                                              *)
(*   udp.since     when the recvfrom in progress was called                *)
(*   udp.arrived   the datagrams that recvfrom returned, with their time   *)
(*                 of arrival and whether they were appended               *)
(*   udp.responses the list that the call returns                          *)
(***************************************************************************)
\* the datagrams that recvfrom returns in one collection, at most
MaxDatagrams == 3
\* "sock.settimeout(3)" and "time.time() - start_time < 3"
Window == 3

\* a JSON object with the given keys
Dict(f) == [dict |-> f]
DeviceDoc(keys) == Dict([k \in keys |-> PyStr("x")])
McpDoc(type, device) ==
    Dict([k \in {"version", "type", "device"} |->
            CASE k = "version" -> PyStr("1.0")
              [] k = "type" -> PyStr(type)
              [] k = "device" -> device])

\* the documents that json.loads returns for the datagrams of the model
Documents ==
    {PyInt(5), PyNone, PyList(<<>>), PyList(<<PyStr("mcp")>>), Dict(<<>>),
     Dict([k \in {"mcp"} |-> PyNone]),
     Dict([k \in {"mcp"} |-> Dict([j \in {"version", "type"} |-> PyStr("1.0")])]),
     Dict([k \in {"mcp"} |-> McpDoc("other", DeviceDoc({"uuid", "model"}))]),
     Dict([k \in {"mcp"} |-> McpDoc("discovery_response", PyNone)]),
     Dict([k \in {"mcp"} |-> McpDoc("discovery_response", DeviceDoc({"uuid"}))]),
     Dict([k \in {"mcp"} |-> McpDoc("discovery_response", DeviceDoc({"uuid", "model"}))])}

\* a datagram: bytes that are no UTF-8, text that is no JSON, or a document
Datagrams ==
    {[utf8 |-> FALSE, json |-> FALSE, doc |-> PyNone],
     [utf8 |-> TRUE, json |-> FALSE, doc |-> PyNone]}
        \cup {[utf8 |-> TRUE, json |-> TRUE, doc |-> d] : d \in Documents}

\* addr of recvfrom
Senders == {<<"10.0.0.1", 47808>>, <<"10.0.0.2", 5000>>}

\* "key in x" of a dict or a list; of None or a number it raises TypeError
Container(x) == "dict" \in DOMAIN x \/ "list" \in DOMAIN x
In(key, x) ==
    CASE "dict" \in DOMAIN x -> key \in DOMAIN x.dict
      [] "list" \in DOMAIN x -> \E k \in 1..Len(x.list) : x.list[k] = PyStr(key)

\* "all(key in x for key in keys)", keys in their order: the value, or the
\* TypeError of the first test
AllIn(keys, x) ==
    IF ~Container(x) THEN Raises("TypeError")
    ELSE Value(PyBool(\A k \in 1..Len(keys) : In(keys[k], x)))

validate_discovery_response(response) ==
    IF ~Container(response) THEN Raises("TypeError")
    ELSE IF ~In("mcp", response) THEN Value(PyBool(FALSE))
    ELSE IF "list" \in DOMAIN response THEN Raises("TypeError")
    ELSE LET mcp == response.dict["mcp"]
             has == AllIn(<<"version", "type", "device">>, mcp)
         IN  IF has.raises # NULL \/ ~has.value.bool THEN has
             ELSE IF "list" \in DOMAIN mcp THEN Raises("TypeError")
             ELSE IF mcp.dict["type"] # PyStr("discovery_response")
                  THEN Value(PyBool(FALSE))
             ELSE AllIn(<<"uuid", "model">>, mcp.dict["device"])

\* the body of the collection loop for the datagram that recvfrom returned:
\* the response to append (None: nothing), or the exception that leaves the loop
handle_datagram(data, addr) ==
    IF ~data.utf8 THEN Raises("UnicodeDecodeError")
    ELSE IF ~data.json THEN Value(PyNone)
    ELSE LET valid == validate_discovery_response(data.doc)
         IN  IF valid.raises # NULL THEN valid
             ELSE IF ~valid.value.bool THEN Value(PyNone)
             ELSE Value([mcp |-> data.doc.dict["mcp"],
                         source_ip |-> addr[1], source_port |-> addr[2]])

\* the test of the while loop
collecting(t, start_time) == t - start_time < Window

\* the broadcast is sent, start_time is taken, the loop is entered and
\* recvfrom called
BroadcastSend ==
    /\ udp.pc = "off"
    /\ udp' = [udp EXCEPT !.pc = "recv", !.start = udp.clock, !.since = udp.clock]

\* a second goes by; the recvfrom in progress raises socket.timeout no later
\* than Window after it was called
ClockTick ==
    /\ udp.pc = "recv"
    /\ udp.clock - udp.since < Window
    /\ udp' = [udp EXCEPT !.clock = udp.clock + 1]

\* recvfrom returns a datagram, the body of the loop handles it, the loop is
\* tested again and recvfrom called again
Recvfrom ==
    /\ udp.pc = "recv"
    /\ udp.clock - udp.since < Window
    /\ Len(udp.arrived) < MaxDatagrams
    /\ \E data \in Datagrams, addr \in Senders :
          LET h == handle_datagram(data, addr)
              appended == h.raises = NULL /\ h.value # PyNone
          IN  udp' = [udp EXCEPT
                        !.arrived = Append(@, [at |-> udp.clock, data |-> data,
                                               addr |-> addr,
                                               appended |-> appended]),
                        !.responses = IF appended THEN Append(@, h.value) ELSE @,
                        !.error = h.raises,
                        !.since = udp.clock,
                        !.pc = IF h.raises = NULL
                                    /\ collecting(udp.clock, udp.start)
                               THEN "recv" ELSE "done"]

\* recvfrom raises socket.timeout: break
RecvTimeout ==
    /\ udp.pc = "recv"
    /\ udp.clock - udp.since >= Window
    /\ udp' = [udp EXCEPT !.pc = "done"]

\* the registry, the loops and the last operation: what a collection and a
\* call on the network leave alone
offWire == <<devices, contexts, points, events, now, discoveryVars,
             refreshVars, tx, ops, details, loopVars, last, workers>>

NextCollect ==
    \/ BroadcastSend /\ UNCHANGED <<offWire, conn>>
    \/ ClockTick /\ UNCHANGED <<offWire, conn>>
    \/ Recvfrom /\ UNCHANGED <<offWire, conn>>
    \/ RecvTimeout /\ UNCHANGED <<offWire, conn>>

SpecCollect == Init /\ [][NextCollect]_vars

(***************************************************************************)
(* Properties of the collection                                            *)
(***************************************************************************)
\* C21: broadcast_discovery collects datagrams only during a fixed window of
\* three seconds from the moment the discovery datagram is sent: no datagram
\* that arrives later than three seconds after the send is accepted, and the
\* arrival of a packet does not extend the window.
C21_FixedWindow ==
    /\ \A k \in 1..Len(udp.arrived) :
          udp.arrived[k].appended => udp.arrived[k].at - udp.start <= Window
    /\ udp.pc = "recv" => udp.clock - udp.start <= Window

\* the envelope of a discovery response: an object whose mcp is an object with
\* version, type "discovery_response", and a device object with uuid and model
Envelope(data) ==
    /\ data.utf8 /\ data.json
    /\ "dict" \in DOMAIN data.doc
    /\ "mcp" \in DOMAIN data.doc.dict
    /\ LET mcp == data.doc.dict["mcp"]
       IN  /\ "dict" \in DOMAIN mcp
           /\ {"version", "type", "device"} \subseteq DOMAIN mcp.dict
           /\ mcp.dict["type"] = PyStr("discovery_response")
           /\ "dict" \in DOMAIN mcp.dict["device"]
           /\ {"uuid", "model"} \subseteq DOMAIN mcp.dict["device"].dict

\* C22: a datagram is accepted if and only if it parses as JSON and holds
\* mcp.version, mcp.type equal to 'discovery_response', mcp.device.uuid and
\* mcp.device.model; a malformed or invalid datagram is discarded without
\* ending the collection of later datagrams; every accepted response carries
\* the source_ip and source_port of its sender.
C22_EnvelopeValidated ==
    /\ \A k \in 1..Len(udp.arrived) :
          LET a == udp.arrived[k]
          IN  a.appended <=> Envelope(a.data)
    /\ udp.error = NULL
    /\ Len(udp.responses)
          = Cardinality({k \in 1..Len(udp.arrived) : udp.arrived[k].appended})
    /\ \A k \in 1..Len(udp.responses) :
          \E j \in 1..Len(udp.arrived) :
             /\ udp.arrived[j].appended
             /\ udp.responses[k].source_ip = udp.arrived[j].addr[1]
             /\ udp.responses[k].source_port = udp.arrived[j].addr[2]
             /\ udp.responses[k].mcp = udp.arrived[j].data.doc.dict["mcp"]

(***************************************************************************)
(* send_message on the network (src/protocol.py): one call on its TCP      *)
(* connection, and the peer at the other end.                               *)
(*   conn.pc      "off", "length" (before the recv of the length),         *)
(*                "data" (in the loop of recvs), "parse", "returned"       *)
(*   conn.sock    "none", "open", "closed"                                 *)
(*   conn.peer    what the peer sends: the bytes of the length prefix, the *)
(*                bytes of the payload, and whether it closes afterwards   *)
(*                (it stays silent otherwise)                              *)
(*   conn.stream  the bytes of the peer that no recv has returned yet      *)
(***************************************************************************)
\* the payload bytes that a peer announces, at most
MaxPayload == 3

\* the bytes of a payload: JSON text, and a byte that is no UTF-8
PayloadBytes == {"1", " ", "{", "}", "#"}

\* n.to_bytes(4, byteorder='big') and int.from_bytes(b, byteorder='big')
to_bytes(n) ==
    <<(n \div 16777216) % 256, (n \div 65536) % 256, (n \div 256) % 256, n % 256>>
RECURSIVE from_bytes(_)
from_bytes(b) ==
    IF b = <<>> THEN 0
    ELSE 256 * from_bytes(SubSeq(b, 1, Len(b) - 1)) + b[Len(b)]

\* s.strip() of JSON whitespace
RECURSIVE strip(_)
strip(s) ==
    IF s # <<>> /\ Head(s) = " " THEN strip(Tail(s))
    ELSE IF s # <<>> /\ s[Len(s)] = " " THEN strip(SubSeq(s, 1, Len(s) - 1))
    ELSE s

\* json.loads(response_data.decode('utf-8')) of the texts over PayloadBytes:
\* a number, an empty object, or no JSON
json_loads(bytes) ==
    LET text == strip(bytes)
    IN  IF \E k \in 1..Len(bytes) : bytes[k] = "#" THEN Raises("UnicodeDecodeError")
        ELSE IF text # <<>> /\ \A k \in 1..Len(text) : text[k] = "1"
             THEN Value(PyInt(int_of_digits(text)))
        ELSE IF /\ Len(text) >= 2
                /\ text[1] = "{"
                /\ text[Len(text)] = "}"
                /\ \A k \in 2..(Len(text) - 1) : text[k] = " "
             THEN Value([dict |-> <<>>])
        ELSE Raises("JSONDecodeError")

\* the peers: each sends the prefix of an announced length, whole or cut
\* short, then at most that many payload bytes
Peers ==
    {[length_bytes |-> SubSeq(to_bytes(n), 1, k), payload |-> <<>>, closes |-> c] :
        n \in 0..MaxPayload, k \in 0..3, c \in BOOLEAN}
    \cup
    {[length_bytes |-> to_bytes(n), payload |-> p, closes |-> c] :
        n \in 0..MaxPayload,
        p \in UNION {[1..m -> PayloadBytes] : m \in 0..MaxPayload},
        c \in BOOLEAN}

\* the except clauses, were the last one ("except Exception") missing
surface_NoCatchAll(e) ==
    CASE e = "socket.timeout" -> Return(PyNone)
      [] e = "ConnectionRefusedError" -> Return(PyNone)
      [] e = "JSONDecodeError" -> Return(PyNone)
      [] OTHER -> Raise(e)

\* the except clauses of send_message: what the caller gets for an exception
surface(e) ==
    CASE e = "socket.timeout" -> Return(PyNone)
      [] e = "ConnectionRefusedError" -> Return(PyNone)
      [] e = "JSONDecodeError" -> Return(PyNone)
      [] OTHER -> Return(PyNone)

\* the finally clause: the call is left with the given outcome
leave(c, result, failure) ==
    [c EXCEPT !.pc = "returned", !.result = result, !.failure = failure,
              !.sock = IF c.sock = "open" THEN "closed" ELSE c.sock]

\* the socket is created, connected, and the request is sent
Connect ==
    /\ conn.pc = "off"
    /\ \/ conn' = leave(conn, surface("OSError"), "OSError")
       \/ \E e \in {"ConnectionRefusedError", "socket.timeout", "OSError"} :
             conn' = leave([conn EXCEPT !.sock = "open", !.opened = @ + 1],
                           surface(e), e)
       \/ \E p \in Peers :
             /\ Len(p.payload) <= from_bytes(p.length_bytes)
             /\ conn' = [conn EXCEPT !.sock = "open", !.opened = @ + 1,
                                     !.pc = "length", !.peer = p,
                                     !.stream = [length |-> p.length_bytes,
                                                 payload |-> p.payload]]

\* "sock.recv(4)" and the test of what it returned
RecvLength ==
    /\ conn.pc = "length"
    /\ IF conn.stream.length = <<>>
       THEN IF conn.peer.closes
            THEN conn' = leave(conn, Return(PyNone), "no length")
            ELSE conn' = leave(conn, surface("socket.timeout"), "socket.timeout")
       ELSE \E k \in 1..Len(conn.stream.length) :
               LET got == SubSeq(conn.stream.length, 1, k)
                   read == [conn EXCEPT !.length_bytes = got,
                               !.stream.length = SubSeq(@, k + 1, Len(@))]
               IN  conn' = IF Len(got) < 4
                           THEN leave(read, Return(PyNone), "short length")
                           ELSE [read EXCEPT !.pc = IF from_bytes(got) > 0
                                                    THEN "data" ELSE "parse"]

\* one pass of the loop: "sock.recv(min(4096, response_length - bytes_received))"
RecvChunk ==
    /\ conn.pc = "data"
    /\ LET response_length == from_bytes(conn.length_bytes)
           wanted == response_length - Len(conn.data)
       IN  IF conn.stream.payload = <<>>
           THEN IF conn.peer.closes
                THEN conn' = [conn EXCEPT !.pc = "parse"]
                ELSE conn' = leave(conn, surface("socket.timeout"), "socket.timeout")
           ELSE \E k \in 1..Min({wanted, Len(conn.stream.payload)}) :
                   conn' = [conn EXCEPT
                              !.data = @ \o SubSeq(conn.stream.payload, 1, k),
                              !.stream.payload = SubSeq(@, k + 1, Len(@)),
                              !.pc = IF Len(conn.data) + k < response_length
                                     THEN "data" ELSE "parse"]

\* after the loop: the response is parsed and returned
ParseResponse ==
    /\ conn.pc = "parse"
    /\ IF conn.data = <<>>
       THEN conn' = leave(conn, Return(PyNone), "no data")
       ELSE LET response == json_loads(conn.data)
            IN  conn' = IF response.raises = NULL
                        THEN leave(conn, Return(response.value), NULL)
                        ELSE leave(conn, surface(response.raises), response.raises)

NextCall ==
    \/ Connect /\ UNCHANGED <<offWire, udp>>
    \/ RecvLength /\ UNCHANGED <<offWire, udp>>
    \/ RecvChunk /\ UNCHANGED <<offWire, udp>>
    \/ ParseResponse /\ UNCHANGED <<offWire, udp>>

SpecCall == Init /\ [][NextCall]_vars

(***************************************************************************)
(* Properties of the call                                                  *)
(***************************************************************************)
\* the peer sent the four bytes of the length and as many payload bytes as
\* they announce
CompleteMessage(p) ==
    /\ Len(p.length_bytes) = 4
    /\ Len(p.payload) = from_bytes(p.length_bytes)

\* the call returned from a connection on which it had sent its request
Answered == conn.pc = "returned" /\ "payload" \in DOMAIN conn.peer

\* C23: send_message returns a parsed response if and only if the four bytes
\* of the length prefix and exactly the announced number of payload bytes are
\* received, however the stream is split into partial reads; when the
\* connection closes before the announced bytes have all arrived the result
\* is None, and the partial data is not returned as a response.
C23_ExactFraming ==
    Answered =>
        LET parsed == json_loads(conn.peer.payload)
            whole == /\ CompleteMessage(conn.peer)
                     /\ conn.peer.payload # <<>>
                     /\ parsed.raises = NULL
        IN  /\ whole => conn.result = Return(parsed.value)
            /\ ~whole => conn.result = Return(PyNone)

GivenPoint == get_point_info(last.input.model_id, last.input.point_id)
\* the conversion of the raw value to the declared type of that point
Coercion == coerce(GivenPoint.type, last.input.value)

\* C29: parse_value never raises to the caller: for an unknown model or point
\* (or an undeclared type) it returns the raw value unchanged, and when the
\* coercion to the declared type fails it returns the original raw value.
C29_ParseValueNeverRaises ==
    last.op = "parse_value" =>
        /\ "returned" \in DOMAIN last.result
        /\ GivenPoint = PyNone => last.result.returned = last.input.value
        /\ (GivenPoint # PyNone /\ Coercion.raises # NULL)
              => last.result.returned = last.input.value

TwoFractionDigits(text, tenths) ==
    LET body == IF text # <<>> /\ Head(text) = "-" THEN Tail(text) ELSE text
        n == Len(body)
        size == IF tenths < 0 THEN 0 - tenths ELSE tenths
        hundredths == (10 * size) % 100
    IN  /\ n >= 4
        /\ body[n - 2] = "."
        /\ SubSeq(body, 1, n - 3) = digits_of(size \div 10)
        /\ SubSeq(body, n - 1, n) = IF hundredths < 10
                                    THEN <<"0">> \o digits_of(hundredths)
                                    ELSE digits_of(hundredths)
        /\ (text # <<>> /\ Head(text) = "-") <=> tenths < 0

\* C31: format_value returns "N/A" for a null value; for a float-typed point
\* with a unit and a value that reads as a finite number it returns the
\* number with exactly two fraction digits, one space and the unit (0 with
\* unit "W" gives "0.00 W"); for an unrecognized point it returns the default
\* string form of the raw value with no unit.
C31_FormatValue ==
    last.op = "format_value" =>
        LET value == last.input.value
            number == py_float(value)
            text == last.result.returned.str
            cut == Len(text) - Len(GivenPoint.unit)
        IN  /\ "returned" \in DOMAIN last.result
            /\ value = PyNone => text = <<"N", "/", "A">>
            /\ ( /\ value # PyNone
                 /\ GivenPoint # PyNone
                 /\ GivenPoint.type = "float"
                 /\ GivenPoint.unit # <<>>
                 /\ number.raises = NULL
                 /\ "float" \in DOMAIN number.value )
                  => /\ cut >= 2
                     /\ SubSeq(text, cut + 1, Len(text)) = GivenPoint.unit
                     /\ text[cut] = " "
                     /\ TwoFractionDigits(SubSeq(text, 1, cut - 1),
                                          number.value.float)
            /\ (last.input = [model_id |-> 101, point_id |-> "W", value |-> PyInt(0)])
                  => text = <<"0", ".", "0", "0", " ", "W">>
            /\ (value # PyNone /\ GivenPoint = PyNone)
                  => text = py_str(value).value.str

\* a float point with a unit was formatted from a negative number
C31_Witness ==
    /\ last.op = "format_value"
    /\ last.input = [model_id |-> 101, point_id |-> "A", value |-> PyFloat(0 - 25)]
    /\ last.result = Return(PyStr(<<"-", "2", ".", "5", "0", " ", "A">>))

(***************************************************************************)
(* Properties of the context paths                                         *)
(***************************************************************************)
\* the path that the last call was given
GivenPath == last.input.context_path

\* a list of subcontext parts that is not empty and whose segments are not
\* empty and hold no dot
SegmentList(parts) ==
    /\ "list" \in DOMAIN parts
    /\ parts.list # <<>>
    /\ \A k \in 1..Len(parts.list) :
          /\ parts.list[k] # <<>>
          /\ \A j \in 1..Len(parts.list[k]) : parts.list[k][j] # "."

HasDot(s) == \E k \in 1..Len(s) : s[k] = "."

\* C25: parse_context_path(build_context_path(id, parts)) returns (id, parts)
\* for every context id and every non-empty list of non-empty dot-free parts;
\* build_context_path applied to what parse_context_path returns for a
\* well-formed path without subcontext parts returns that path.
C25_PathRoundTrip ==
    /\ (last.op = "build_context_path" /\ SegmentList(last.input.subcontext_parts))
          => parse_context_path(last.result)
                 = <<last.input.context_id, last.input.subcontext_parts>>
    /\ (/\ last.op = "parse_context_path"
        /\ IsStr(GivenPath)
        /\ GivenPath.str # <<>>
        /\ ~HasDot(GivenPath.str))
          => build_context_path(last.result[1], last.result[2]) = GivenPath

\* C25, for the context ids that hold no dot:
\* parse_context_path(build_context_path(id, parts)) returns (id, parts) for
\* every dot-free context id and every non-empty list of non-empty dot-free
\* parts; build_context_path applied to what parse_context_path returns for a
\* well-formed path without subcontext parts returns that path.
C25_DotFreeRoundTrip ==
    /\ (/\ last.op = "build_context_path"
        /\ SegmentList(last.input.subcontext_parts)
        /\ ~HasDot(last.input.context_id.str))
          => parse_context_path(last.result)
                 = <<last.input.context_id, last.input.subcontext_parts>>
    /\ (/\ last.op = "parse_context_path"
        /\ IsStr(GivenPath)
        /\ GivenPath.str # <<>>
        /\ ~HasDot(GivenPath.str))
          => build_context_path(last.result[1], last.result[2]) = GivenPath

\* a path was built from a dot-free id and as many parts as the model gives
C25_Witness ==
    /\ last.op = "build_context_path"
    /\ SegmentList(last.input.subcontext_parts)
    /\ Len(last.input.subcontext_parts.list) = MaxParts
    /\ last.input.context_id.str # <<>>
    /\ ~HasDot(last.input.context_id.str)
    /\ parse_context_path(last.result)
          = <<last.input.context_id, last.input.subcontext_parts>>

\* a string with an empty dot-separated segment: a leading dot, a trailing
\* dot or two consecutive dots
EmptySegment(s) ==
    \/ s[1] = "."
    \/ s[Len(s)] = "."
    \/ \E k \in 1..(Len(s) - 1) : s[k] = "." /\ s[k + 1] = "."

\* C26: is_valid_context_path returns False for an empty or non-string input
\* and for a path with an empty dot-separated segment, True for every other
\* string.
C26_ValidPath ==
    last.op = "is_valid_context_path" =>
        last.result = (/\ IsStr(GivenPath)
                       /\ GivenPath.str # <<>>
                       /\ ~EmptySegment(GivenPath.str))

\* a path of two segments and an empty one after them was found invalid
C26_Witness ==
    /\ last.op = "is_valid_context_path"
    /\ IsStr(GivenPath)
    /\ Len(GivenPath.str) = MaxLen
    /\ GivenPath.str[1] # "."
    /\ GivenPath.str[MaxLen - 1] = "."
    /\ GivenPath.str[MaxLen] = "."
    /\ last.result = FALSE

\* the first segment of a string
FirstSegment(s) == split(s)[1]

\* the characters of s up to the first that is not in the class
RECURSIVE LeadingRun(_, _)
LeadingRun(s, class) ==
    IF s = <<>> \/ Head(s) \notin class THEN <<>>
    ELSE <<Head(s)>> \o LeadingRun(Tail(s), class)

\* the first contiguous run of characters of the class in s
RECURSIVE FirstRun(_, _)
FirstRun(s, class) ==
    IF s = <<>> THEN <<>>
    ELSE IF Head(s) \in class THEN LeadingRun(s, class)
    ELSE FirstRun(Tail(s), class)

\* C27: get_context_type returns the lower-cased run of alphabetic characters
\* at the start of the first segment only: what follows the first character
\* that is not alphabetic is not included ("unknown" when there is no run).
C27_TypeIsLeadingRun ==
    (last.op = "get_context_type" /\ IsStr(GivenPath) /\ GivenPath.str # <<>>) =>
        LET run == LeadingRun(FirstSegment(GivenPath.str), Alpha)
        IN  last.result = IF run = <<>> THEN PyStr(Unknown)
                          ELSE PyStr([k \in 1..Len(run) |-> lower(run[k])])

\* C28: get_context_index returns the integer value of the first contiguous
\* run of digits of the first segment; without a digit there, the value of the
\* second segment when that one is purely numeric; None otherwise, and for
\* the empty path.
C28_IndexIsFirstRun ==
    last.op = "get_context_index" =>
        IF ~IsStr(GivenPath) \/ GivenPath.str = <<>> THEN last.result = PyNone
        ELSE LET parts == split(GivenPath.str)
                 run == FirstRun(parts[1], Digits)
             IN  last.result =
                    IF run # <<>> THEN PyInt(int_of_digits(run))
                    ELSE IF Len(parts) > 1 /\ isdigit(parts[2])
                         THEN PyInt(int_of_digits(parts[2]))
                         ELSE PyNone


\* C34: get_context_type returns "unknown" for every input that
\* is_valid_context_path rejects (empty, not a string, or holding an empty
\* segment) and for every path whose first segment does not start with an
\* alphabetic character.
C34_UnknownForRejected ==
    ( /\ last.op = "get_context_type"
      /\ \/ ~is_valid_context_path(GivenPath)
         \/ FirstSegment(GivenPath.str) = <<>>
         \/ Head(FirstSegment(GivenPath.str)) \notin Alpha )
        => last.result = PyStr(Unknown)


(***************************************************************************)
(* Properties of a discovery round whose steps can fail                    *)
(***************************************************************************)
\* the uuids of the valid responses that the round received
Answered_uuids ==
    {round.responses[k].uuid : k \in {j \in 1..Len(round.responses) :
        /\ round.responses[j].uuid # NULL
        /\ round.responses[j].source_ip # NULL}}

\* C32: a device whose valid discovery response was received in a round
\* belongs to the uuids seen in that round, and the round's liveness pass
\* does not take it offline, also when the upsert or the contexts of the
\* device failed in the round.
C32_AnsweredStaysOnline ==
    RoundEnded =>
        /\ Answered_uuids \subseteq RoundDiscovered
        /\ \A i \in 1..Len(last.pre_devices) :
              (devices[i].uuid \in Answered_uuids /\ last.pre_devices[i].is_online)
                  => devices[i].is_online


\* the contexts that the device of the last response returned, and the
\* entries among them that carry an id which the response lists once
ReturnedContexts == last.input.contexts.contexts
ListedOnce ==
    {k \in 1..Len(ReturnedContexts) :
        /\ ReturnedContexts[k].id # NULL
        /\ \A j \in 1..Len(ReturnedContexts) :
              ReturnedContexts[j].id = ReturnedContexts[k].id => j = k}

\* the rows of the point that definition info of the context row c names
DefinedRows(c, info) ==
    Rows(points, LAMBDA p : p.context_id = c /\ p.point_id = info.point_id)

\* C33: after a device's contexts response is reconciled, the stored context
\* of every context it returned carries the returned properties, and for
\* every embedded point definition the stored properties equal the returned
\* ones whether or not a value came with it, while value and last_updated of
\* a point that was stored before change only when a value that is not null
\* was supplied.
C33_ReturnedMetadataStored ==
    (last.op = "response" /\ last.input.contexts.ok) =>
        \A k \in ListedOnce :
            LET info == ReturnedContexts[k]
                c == FindContext(contexts, last.result.id, info.id)
            IN  /\ c # 0
                /\ contexts[c].context_type = info.type
                /\ info.has_points =>
                      \A def \in info.points :
                          /\ DefinedRows(c, def) # {}
                          /\ \A i \in DefinedRows(c, def) :
                                /\ points[i].access = def.access
                                /\ (i <= Len(last.pre_points) /\ def.value = NULL)
                                      => /\ points[i].value = last.pre_points[i].value
                                         /\ points[i].last_updated
                                               = last.pre_points[i].last_updated

\* a stored point with a value got another access mode from a definition
\* that came without a value
C33_Witness ==
    /\ last.op = "response"
    /\ last.input.contexts.ok
    /\ \E k \in ListedOnce, i \in 1..Len(last.pre_points) :
          /\ ReturnedContexts[k].has_points
          /\ \E def \in ReturnedContexts[k].points :
                /\ def.value = NULL
                /\ i \in DefinedRows(FindContext(contexts, last.result.id,
                                               ReturnedContexts[k].id), def)
          /\ points[i].access # last.pre_points[i].access
          /\ points[i].value # NULL
          /\ points[i].value = last.pre_points[i].value


(***************************************************************************)
(* Frame of the refresh pass and of the writes                             *)
(***************************************************************************)
RefreshOps == {"refresh_all", "refresh_device", "refresh_context"}
WriteOps == {"write", "write_point"}
DiscoveryOps == {"response", "update_status"}

\* the columns of a Device row that identify the device and locate it (name
\* and model are set where uuid is)
Identity(d) ==
    [uuid |-> d.uuid, ip_address |-> d.ip_address, port |-> d.port,
     is_online |-> d.is_online]

\* s after one pass of a loop over it, or s itself
Consumed(s, after) == after = s \/ (s # <<>> /\ after = Tail(s))

\* a step of the refresh pass or of a write leaves every device where and as
\* it was but for last_seen; the pass begins with the devices that are online
\* and a read is sent for the contexts of those only, one after the other; a
\* step that changes an online flag is a step of discovery
FrameStep ==
    LET op == last'.op
    IN  /\ op \in RefreshOps \cup WriteOps =>
              /\ Len(devices') = Len(devices)
              /\ \A i \in 1..Len(devices) :
                    Identity(devices'[i]) = Identity(devices[i])
        /\ op \in WriteOps => devices' = devices
        /\ op \in RefreshOps =>
              /\ contexts' = contexts
              /\ Len(points') = Len(points)
              /\ \A i \in 1..Len(points) :
                    [points'[i] EXCEPT !.value = NULL, !.last_updated = NoTime]
                        = [points[i] EXCEPT !.value = NULL, !.last_updated = NoTime]
        /\ (\E i \in 1..Len(devices) :
                devices'[i].is_online # devices[i].is_online) => op \in DiscoveryOps
        /\ op = "refresh_all" =>
              \A k \in 1..Len(rdevices') : devices[rdevices'[k]].is_online
        /\ op # "refresh_all" => Consumed(rdevices, rdevices')
        /\ op = "refresh_device" =>
              /\ rdevices # <<>>
              /\ \A k \in 1..Len(rcontexts') :
                    contexts[rcontexts'[k]].device_id = Head(rdevices)
        /\ op \notin {"refresh_all", "refresh_device"} => Consumed(rcontexts, rcontexts')
        /\ \A m \in 1..Len(last'.sent) :
              last'.sent[m].type = "read" =>
                  /\ op = "refresh_context"
                  /\ rcontexts # <<>>
                  /\ last'.sent[m].context = contexts[Head(rcontexts)].context_id

\* C35: neither a refresh pass nor a write changes a device's online flag,
\* uuid, address or port; the pass reads only the devices that were online
\* when it began and changes last_seen and point values only; the online
\* flag changes in discovery steps only, also when the liveness pass of a
\* round runs within a refresh pass.
C35_RefreshAndWriteFrame == [][FrameStep]_vars

\* the pass stamped a device that the liveness pass of a round had taken
\* offline after the pass began
C35_Witness ==
    /\ last.op = "refresh_device"
    /\ ~devices[last.input].is_online
    /\ devices[last.input].last_seen = now
    /\ last.pre_devices[last.input].last_seen # now


\* the keys of the rows of the registry: which devices, contexts and points
\* there are
RegistryKeys(devs, ctxs, pts) ==
    [devices |-> [i \in 1..Len(devs) |-> devs[i].uuid],
     contexts |-> [i \in 1..Len(ctxs) |-> <<ctxs[i].device_id, ctxs[i].context_id>>],
     points |-> [i \in 1..Len(pts) |-> <<pts[i].context_id, pts[i].point_id>>]]

\* the point ids that the last read returned and the context does not register
Unregistered ==
    {v.point_id : v \in last.input.response.points}
        \ {last.pre_points[i].point_id :
              i \in Rows(last.pre_points, LAMBDA p : p.context_id = last.input.context)}

\* C36: a step of the refresh pass creates and deletes no Device, Context or
\* DataPoint row, a point id that a read returns and the context does not
\* register is ignored, and the rows of contexts and points that there are
\* change in discovery reconciliation only.
C36_RefreshKeepsRegistry ==
    /\ last.op \in RefreshOps =>
          RegistryKeys(devices, contexts, points)
              = RegistryKeys(last.pre_devices, last.pre_contexts, last.pre_points)
    /\ (last.op = "refresh_context" /\ Unregistered # {}) =>
          \A i \in 1..Len(points) :
              points[i].context_id = last.input.context
                  => points[i].point_id \notin Unregistered
    /\ (\/ RegistryKeys(devices, contexts, points).contexts
             # RegistryKeys(last.pre_devices, last.pre_contexts, last.pre_points).contexts
        \/ RegistryKeys(devices, contexts, points).points
             # RegistryKeys(last.pre_devices, last.pre_contexts, last.pre_points).points)
          => last.op = "response"

\* a read returned a value for a point id that its context does not register
C36_Witness ==
    /\ last.op = "refresh_context"
    /\ last.input.response.ok
    /\ \E v \in last.input.response.points :
          v.point_id \in Unregistered /\ v.value # NULL
    /\ points # <<>>


\* the last write named a device that is not registered or was offline, or
\* a context that does not exist
UnknownTarget ==
    \/ last.input.device_id > Len(last.pre_devices)
    \/ ~last.pre_devices[last.input.device_id].is_online
    \/ /\ last.op = "write"
       /\ last.input.context_id > Len(last.pre_contexts)
    \/ /\ last.op = "write_point"
       /\ FindContext(last.pre_contexts, last.input.device_id, last.input.path) = 0

\* C37: a write (write_device_context or write_point_value) that names an
\* unknown or offline device, or an unknown context, fails: no request is
\* sent, and no stored value and no event changes.
C37_UnknownTargetRejected ==
    (last.op \in WriteOps /\ UnknownTarget) =>
        /\ ~last.result.success
        /\ last.sent = <<>>
        /\ points = last.pre_points
        /\ events = last.pre_events
        /\ devices = last.pre_devices
        /\ contexts = last.pre_contexts

\* a write named a registered device that was offline, and failed
C37_Witness ==
    /\ last.op \in WriteOps
    /\ last.input.device_id <= Len(last.pre_devices)
    /\ ~last.pre_devices[last.input.device_id].is_online
    /\ ~last.result.success


\* C38: whenever write_device_context returns success False, or
\* write_point_value returns False, the call persisted no point value, also
\* when the commit of the 'write' event fails after the values were committed.
C38_FailedWritePersistsNothing ==
    (last.op \in WriteOps /\ ~last.result.success) => points = last.pre_points


(***************************************************************************)
(* init_device_manager called again and again (src/device.py): every call  *)
(* starts a thread that runs start_refresh_loop of the one DeviceManager.   *)
(* workers[w] is the position of the thread of call w, as rloop is in       *)
(* SpecLoop; "round" is the thread inside refresh_all_devices. The threads  *)
(* share refresh_active and the stop event of the manager.                  *)
(***************************************************************************)
\* init_device_manager: the manager is created by the first call, and every
\* call starts a thread
InitDeviceManager ==
    /\ \E w \in 1..MaxWorkers :
          /\ workers[w] = "off"
          /\ \A v \in 1..(w - 1) : workers[v] # "off"
          /\ workers' = [workers EXCEPT ![w] = "starting"]
          /\ last' = Last("init_device_manager", [worker |-> w], NoResult, <<>>)
    /\ UNCHANGED <<refresh_active, rstop>>

\* start_refresh_loop in the thread of call w, statement by statement: the
\* active flag, the clear of the stop event, the while test with the finally
\* clause, the round, the wait
WorkerStep(w) ==
    \/ /\ workers[w] = "starting"
       /\ workers' = [workers EXCEPT ![w] = "clearing"]
       /\ refresh_active' = TRUE
       /\ last' = Last("worker_activate", [worker |-> w], NoResult, <<>>)
       /\ UNCHANGED rstop
    \/ /\ workers[w] = "clearing"
       /\ workers' = [workers EXCEPT ![w] = "test"]
       /\ rstop' = FALSE
       /\ last' = Last("worker_clear", [worker |-> w, stop |-> rstop], NoResult, <<>>)
       /\ UNCHANGED refresh_active
    \/ /\ workers[w] = "test"
       /\ workers' = [workers EXCEPT
                         ![w] = IF LoopContinues(rstop) THEN "round" ELSE "done"]
       /\ refresh_active' = IF LoopContinues(rstop) THEN refresh_active ELSE FALSE
       /\ last' = Last("worker_test", [worker |-> w, stop |-> rstop], NoResult, <<>>)
       /\ UNCHANGED rstop
    \/ /\ workers[w] = "round"
       /\ \E pc \in {"idle", "raised"} :
             /\ workers' = [workers EXCEPT ![w] = RoundPosition(pc)]
             /\ last' = Last("worker_round", [worker |-> w, round |-> pc],
                             NoResult, <<>>)
       /\ UNCHANGED <<refresh_active, rstop>>
    \/ /\ workers[w] = "wait"
       /\ \E elapsed \in BOOLEAN :
             /\ WaitReturns(rstop, elapsed)
             /\ last' = Last("worker_wait", [worker |-> w, elapsed |-> elapsed],
                             NoResult, <<>>)
       /\ workers' = [workers EXCEPT ![w] = "test"]
       /\ UNCHANGED <<refresh_active, rstop>>

\* the variables that the threads of init_device_manager leave alone
offWorkers == <<devices, contexts, points, events, now, discoveryVars,
                refreshVars, tx, ops, details, conn, udp,
                discoveryLoopVars, rloop, rlog>>

NextWorkers ==
    \/ InitDeviceManager /\ UNCHANGED offWorkers
    \/ \E w \in 1..MaxWorkers : WorkerStep(w) /\ UNCHANGED offWorkers
    \/ StopRefresh /\ UNCHANGED <<registryVars, discoveryLoopVars>>

SpecWorkers == InitLoop /\ [][NextWorkers]_vars

\* C40: of one DeviceManager at most one refresh worker is inside a round at
\* any time, also when init_device_manager is called more than once or the
\* loop is started again after a stop request.
C40_OneWorkerInRound ==
    Cardinality({w \in 1..MaxWorkers : workers[w] = "round"}) <= 1

(***************************************************************************)
(* Properties of the launch of the loops                                   *)
(***************************************************************************)
\* the thread of the loop was launched and has not returned
Launched(position) == position \notin {"off", "done"}

\* a stop requested of a launched loop sets its stop event, and the event of
\* a launched loop stays set until the thread has returned
StopKept ==
    /\ (last'.op = "stop_discovery" /\ Launched(dloop)) => dstop'
    /\ (last'.op = "stop_refresh" /\ Launched(rloop)) => rstop'
    /\ (dstop /\ Launched(dloop)) => (dstop' \/ dloop' = "done")
    /\ (rstop /\ Launched(rloop)) => (rstop' \/ rloop' = "done")

\* C39: a stop request (stop_discovery / stop_refresh) made at any point
\* after the worker of the loop was launched, also before the loop has set
\* its active flag and cleared its stop event, is not lost: the stop event
\* is set by it and stays set until the loop has terminated.
C39_NoStopLost == [][StopKept]_vars

====
